---- MODULE Spec2Model ----
(***************************************************************************)
(* Reactive dependency tracking: the state converter (observe,             *)
(* defineReactive, set, del), the Watcher (get, addDep, cleanupDeps,       *)
(* update, run, evaluate, depend, teardown), the Dep subject and the       *)
(* scheduler queue.                                                        *)
(*                                                                         *)
(* The program is single threaded and re-entrant: a write calls the        *)
(* setter, which calls notify, which calls update, which may call run,     *)
(* get, the evaluator, a callback and further writes.  Every handler is    *)
(* an operator from a program state (a record with one field per piece of  *)
(* program state) to the program state it leaves; an action applies the    *)
(* operator of one entry point to the current state.                       *)
(***************************************************************************)
EXTENDS Integers, Sequences, FiniteSets, TLC

\* ---------------------------------------------------------------- bounds
MaxWatchers == 2      \* watchers created in one behaviour
MaxDeps == 6          \* Dep instances created in one behaviour
MaxWrites == 2        \* writes counted between two flushes (history only)
MaxRoots == 2         \* instances using one object as root data

\* ---------------------------------------------------------------- values
\* JavaScript values: primitives and references to heap objects.
NaN == "NaN"
Undefined == "undefined"
Absent == "absent"           \* marks a key that is not an own property
NoOb == "none"               \* no Observer (observe returned undefined)
NoExc == "none"              \* no exception in flight
\* heap objects: R the data root, P its child, Q a fresh object, and the
\* lists L = [1, M] and M = [Q]
Objs == {"R", "P", "Q", "L", "M"}
Lists == {"L", "M"}
\* the elements of a list, in index order (no list is mutated)
Elems(v) == IF v = "L" THEN <<"1", "M">> ELSE IF v = "M" THEN <<"Q">> ELSE <<>>
Keys == {"a", "o", "x", "n"}
Prims == {"1", "2", NaN, Undefined}

isObject(v) == v \in Objs
isArray(v) == v \in Lists
isPlainObject(v) == v \in Objs /\ ~isArray(v)
isExtensible(v) == v \in Objs
InObjectPrototype(k) == k \in {"constructor", "toString"}
\* JavaScript === : NaN is not equal to itself
StrictEq(a, b) == a = b /\ a # NaN

\* ---------------------------------------------------------------- state
VARIABLES
  okeys,         \* okeys[o]: the own enumerable keys of o, in insertion order
  val,           \* val[o][k]: the value stored under key k of o (closure val or data slot)
  keyDep,        \* keyDep[o][k]: id of the Dep closed over by the accessor of k, -1 if plain
  childOb,       \* childOb[o][k]: the object whose Observer the accessor closes over
  ob,            \* ob[o]: the __ob__ of o: [has, dep, vmCount]
  shouldObserve, \* the module flag of the observer
  subs,          \* subs[d]: the subscriber list of Dep d (domain 0..uid-1 of Dep)
  ws,            \* ws[i]: the Watcher with id i
  targetStack,   \* the active-watcher stack; Dep.target is its top
  queue, has, waiting, flushing, index, circular,   \* scheduler state
  exc,           \* the exception that escaped the last entry point, or NoExc
  lastOp,        \* history: the entry point the last step ran, with its arguments
  notifyLog,     \* history: Deps whose notify() ran during the last step, in order
  updLog,        \* history: watchers whose update() ran during the last step
  evalLog,       \* history: watchers whose evaluator ran during the last step
  cbLog,         \* history: callback invocations of the last step: [w, new, old]
  errLog,        \* history: handleError / warn reports of the last step
  touched,       \* history: watchers subscribed to a key when a write changed it, since the last flush began
  nWrites,       \* history: changing writes since the last flush began
  flTouched,     \* history: touched, as it was when the current / last flush began
  flWrites,      \* history: nWrites, as it was when the current / last flush began
  evalInFlush,   \* history: evalInFlush[w]: evaluations of w in the current / last flush
  cbWrote,       \* history: a callback changed state during the current / last flush
  warned,        \* history: warned[w]: loop warnings naming w in the current / last flush
  dropped        \* history: the watchers a flush has taken out of its queue, ever

vars == <<okeys, val, keyDep, childOb, ob, shouldObserve, subs, ws, targetStack,
          queue, has, waiting, flushing, index, circular, exc, lastOp,
          notifyLog, updLog, evalLog, cbLog, errLog, touched, nWrites,
          flTouched, flWrites, evalInFlush, cbWrote, warned,
          dropped>>

\* The program state as one record, the argument and result of every handler.
\* ret is the value the last call returned.
St ==
  [okeys |-> okeys, val |-> val, keyDep |-> keyDep, childOb |-> childOb, ob |-> ob,
   shouldObserve |-> shouldObserve, subs |-> subs, ws |-> ws,
   targetStack |-> targetStack, queue |-> queue, has |-> has, waiting |-> waiting,
   flushing |-> flushing, index |-> index, circular |-> circular,
   exc |-> NoExc, ret |-> Undefined,
   notifyLog |-> <<>>, updLog |-> <<>>, evalLog |-> <<>>, cbLog |-> <<>>,
   errLog |-> <<>>, touched |-> touched, nWrites |-> nWrites,
   flTouched |-> flTouched, flWrites |-> flWrites, evalInFlush |-> evalInFlush, cbWrote |-> cbWrote,
   warned |-> warned, dropped |-> dropped]

Commit(s, op) ==
  /\ okeys' = s.okeys /\ val' = s.val /\ keyDep' = s.keyDep /\ childOb' = s.childOb
  /\ ob' = s.ob /\ shouldObserve' = s.shouldObserve /\ subs' = s.subs /\ ws' = s.ws
  /\ targetStack' = s.targetStack /\ queue' = s.queue /\ has' = s.has
  /\ waiting' = s.waiting /\ flushing' = s.flushing /\ index' = s.index
  /\ circular' = s.circular /\ exc' = s.exc /\ lastOp' = op
  /\ notifyLog' = s.notifyLog /\ updLog' = s.updLog /\ evalLog' = s.evalLog
  /\ cbLog' = s.cbLog /\ errLog' = s.errLog /\ touched' = s.touched
  /\ nWrites' = s.nWrites /\ flTouched' = s.flTouched /\ flWrites' = s.flWrites
  /\ evalInFlush' = s.evalInFlush /\ cbWrote' = s.cbWrote /\ warned' = s.warned
  /\ dropped' = s.dropped

depUid(s) == Cardinality(DOMAIN s.subs)     \* the uid counter of Dep
\* The(S) is the element of the singleton S.  A handler binds the state a call
\* returns as  The({ ... s1 ... : s1 \in {call} }) : the call is evaluated
\* once, whatever the number of uses of s1.
The(S) == CHOOSE x \in S : TRUE
SeqSet(q) == {q[i] : i \in DOMAIN q}
Remove(q, x) ==                             \* util remove: the first occurrence
  IF x \notin SeqSet(q) THEN q
  ELSE LET i == CHOOSE j \in DOMAIN q : q[j] = x /\ \A m \in 1..(j - 1) : q[m] # x
       IN SubSeq(q, 1, i - 1) \o SubSeq(q, i + 1, Len(q))

\* Every handler that calls back into another is declared here.
RECURSIVE observe(_, _, _), walk(_, _, _), defineReactive(_, _, _, _, _, _)
RECURSIVE notifyEach(_, _), WatcherRun(_, _), WatcherGet(_, _), traverse(_, _)
RECURSIVE evaluator(_, _), callback(_, _, _, _), reactiveSetter(_, _, _, _)
RECURSIVE dependEach(_, _, _), WatcherEvaluate(_, _), WatcherDepend(_, _)
RECURSIVE observeArray(_, _), dependArray(_, _), dependItems(_, _)

\* ------------------------------------------------------------------- Dep
\* new Dep(): id = uid++, subs = []
NewDep(s) ==
  [s EXCEPT !.subs = [d \in 0..depUid(s) |-> IF d < depUid(s) THEN s.subs[d] ELSE <<>>]]

\* subscribe: add to the subscriber list, idempotent
addSub(s, d, w) ==
  IF w \in SeqSet(s.subs[d]) THEN s
  ELSE [s EXCEPT !.subs[d] = Append(@, w)]

\* unsubscribe: remove from the subscriber list, idempotent
removeSub(s, d, w) == [s EXCEPT !.subs[d] = Remove(@, w)]

pushTarget(s, w) == [s EXCEPT !.targetStack = Append(@, w)]

popTarget(s) == [s EXCEPT !.targetStack = SubSeq(@, 1, Len(@) - 1)]

DepTarget(s) == IF s.targetStack = <<>> THEN 0 ELSE s.targetStack[Len(s.targetStack)]

\* --------------------------------------------------- Watcher: dependencies
\* addDep without the test of the Deps already seen in this evaluation
addDepNoSeenTest(s, w, d) ==
  LET s1 == [s EXCEPT !.ws[w].newDepIds = @ \cup {d},
                      !.ws[w].newDeps = Append(@, d)]
  IN IF d \notin s.ws[w].depIds THEN addSub(s1, d, w) ELSE s1

addDep(s, w, d) ==
  IF d \notin s.ws[w].newDepIds
  THEN LET s1 == [s EXCEPT !.ws[w].newDepIds = @ \cup {d},
                           !.ws[w].newDeps = Append(@, d)]
       IN IF d \notin s.ws[w].depIds THEN addSub(s1, d, w) ELSE s1
  ELSE s

\* record(): Dep.depend.  The history field readLog notes the call.
DepDepend(s, d) ==
  IF DepTarget(s) = 0 THEN s
  ELSE LET w == DepTarget(s)
       IN addDep([s EXCEPT !.ws[w].readLog = @ \cup {d}], w, d)

RECURSIVE cleanupLoop(_, _, _)
\* the while (i--) loop of cleanupDeps, i counting down from deps.length
cleanupLoop(s, w, i) ==
  IF i = 0 THEN s
  ELSE LET d == s.ws[w].deps[i]
       IN cleanupLoop(IF d \notin s.ws[w].newDepIds THEN removeSub(s, d, w) ELSE s,
                      w, i - 1)

\* cleanupDeps that forgets to unsubscribe from the Deps no longer read
cleanupDepsNoPrune(s, w) ==
  [s EXCEPT !.ws[w].depIds = s.ws[w].newDepIds, !.ws[w].newDepIds = {},
            !.ws[w].deps = s.ws[w].newDeps, !.ws[w].newDeps = <<>>]

cleanupDeps(s, w) ==
  The({ [s1 EXCEPT !.ws[w].depIds = s1.ws[w].newDepIds, !.ws[w].newDepIds = {},
                   !.ws[w].deps = s1.ws[w].newDeps, !.ws[w].newDeps = <<>>]
        : s1 \in {cleanupLoop(s, w, Len(s.ws[w].deps))} })

\* -------------------------------------------------------- state converter
hasOwn(s, o, k) == s.val[o][k] # Absent

\* observeArray(items): observe(items[i]) for every element
observeArray(s, items) ==
  IF items = <<>> THEN s
  ELSE observeArray(observe(s, Head(items), FALSE), Tail(items))

\* new Observer(value): dep = new Dep(), vmCount = 0, def __ob__, then
\* observeArray for a list and walk for a plain object
NewObserver(s, o) ==
  The({ [(IF isArray(o) THEN observeArray(s1, Elems(o)) ELSE walk(s1, o, s.okeys[o]))
         EXCEPT !.ret = o]
        : s1 \in {[NewDep(s) EXCEPT !.ob[o] = [has |-> TRUE, dep |-> depUid(s),
                                               vmCount |-> 0]]} })

\* walk: defineReactive(obj, keys[i]) for the keys Object.keys returned
walk(s, o, ks) ==
  IF ks = <<>> THEN s
  ELSE walk(defineReactive(s, o, Head(ks), Undefined, 2, FALSE), o, Tail(ks))

\* observe that counts a root again on an object it has just wrapped only
observeNoRecount(s, v, asRootData) ==
  IF ~isObject(v) THEN [s EXCEPT !.ret = NoOb]
  ELSE IF s.ob[v].has THEN [s EXCEPT !.ret = v]
  ELSE IF s.shouldObserve /\ (isArray(v) \/ isPlainObject(v)) /\ isExtensible(v)
       THEN IF asRootData THEN [NewObserver(s, v) EXCEPT !.ob[v].vmCount = @ + 1]
            ELSE NewObserver(s, v)
       ELSE [s EXCEPT !.ret = NoOb]

\* observe(value, asRootData); ret is the object whose Observer is returned
observe(s, v, asRootData) ==
  IF ~isObject(v) THEN [s EXCEPT !.ret = NoOb]
  ELSE The({ IF asRootData /\ s1.ret # NoOb
             THEN [s1 EXCEPT !.ob[s1.ret].vmCount = @ + 1]
             ELSE s1
             : s1 \in { IF s.ob[v].has THEN [s EXCEPT !.ret = v]
                        ELSE IF s.shouldObserve /\ (isArray(v) \/ isPlainObject(v))
                                /\ isExtensible(v)
                             THEN NewObserver(s, v)
                             ELSE [s EXCEPT !.ret = NoOb] } })

\* defineReactive(obj, key, val, customSetter, shallow) on a configurable data
\* property; nargs is arguments.length.  The callers in the sources pass neither
\* customSetter nor shallow.
defineReactive(s, o, k, v, nargs, shallow) ==
  LET dep == depUid(s)
      v0 == IF nargs = 2
            THEN (IF hasOwn(s, o, k) THEN s.val[o][k] ELSE Undefined)
            ELSE v
  IN The({ [s2 EXCEPT !.val[o][k] = v0, !.keyDep[o][k] = dep, !.childOb[o][k] = s2.ret,
                      !.okeys[o] = IF k \in SeqSet(@) THEN @ ELSE Append(@, k),
                      !.ret = Undefined]
           : s2 \in { IF shallow THEN [NewDep(s) EXCEPT !.ret = NoOb]
                      ELSE observe(NewDep(s), v0, FALSE) } })

\* the loop of dependArray: e && e.__ob__ && e.__ob__.dep.depend(), and
\* dependArray(e) for an element that is a list
dependItems(s, items) ==
  IF items = <<>> THEN s
  ELSE The({ dependItems(IF isArray(Head(items)) THEN dependArray(s1, Head(items)) ELSE s1,
                         Tail(items))
             : s1 \in { IF isObject(Head(items)) /\ s.ob[Head(items)].has
                        THEN DepDepend(s, s.ob[Head(items)].dep)
                        ELSE s } })

dependArray(s, v) == dependItems(s, Elems(v))

\* the getter that does not descend into the elements of a list
reactiveGetterNoDependArray(s, o, k) ==
  LET value == s.val[o][k]
  IN [(IF DepTarget(s) # 0
       THEN IF s.childOb[o][k] # NoOb
            THEN DepDepend(DepDepend(s, s.keyDep[o][k]), s.ob[s.childOb[o][k]].dep)
            ELSE DepDepend(s, s.keyDep[o][k])
       ELSE s)
      EXCEPT !.ret = value]

reactiveGetter(s, o, k) ==
  LET value == s.val[o][k]
  IN [(IF DepTarget(s) # 0
       THEN IF s.childOb[o][k] # NoOb
            THEN IF isArray(value)
                 THEN dependArray(DepDepend(DepDepend(s, s.keyDep[o][k]),
                                            s.ob[s.childOb[o][k]].dep), value)
                 ELSE DepDepend(DepDepend(s, s.keyDep[o][k]), s.ob[s.childOb[o][k]].dep)
            ELSE DepDepend(s, s.keyDep[o][k])
       ELSE s)
      EXCEPT !.ret = value]

\* a property read obj[key]: through the accessor when the key is converted
GetProp(s, o, k) ==
  IF s.keyDep[o][k] >= 0 THEN reactiveGetter(s, o, k)
  ELSE [s EXCEPT !.ret = IF hasOwn(s, o, k) THEN s.val[o][k] ELSE Undefined]

\* ----------------------------------------------------------- scheduler
\* The circular-update threshold of the scheduler.
MAX_UPDATE_COUNT == 2

RECURSIVE insertPos(_, _, _)
\* while (i > index && queue[i].id > watcher.id) i--, on 1-based positions
insertPos(s, w, p) ==
  IF p > s.index + 1 /\ s.queue[p] > w THEN insertPos(s, w, p - 1) ELSE p

\* enqueue(computation)
queueWatcher(s, w) ==
  IF w \in s.has THEN s
  ELSE LET q == IF ~s.flushing THEN Append(s.queue, w)
                ELSE LET p == insertPos(s, w, Len(s.queue))
                     IN SubSeq(s.queue, 1, p) \o <<w>> \o SubSeq(s.queue, p + 1, Len(s.queue))
       IN [s EXCEPT !.has = @ \cup {w}, !.queue = q, !.waiting = TRUE]

\* ------------------------------------------------------------- Watcher
\* update() that ignores a notification that arrives while a flush is in progress
WatcherUpdateLostInFlush(s, w) ==
  LET s1 == [s EXCEPT !.updLog = Append(@, w)]
  IN IF s1.ws[w].lazy THEN [s1 EXCEPT !.ws[w].dirty = TRUE]
     ELSE IF s1.ws[w].sync THEN WatcherRun(s1, w)
     ELSE IF s1.flushing THEN s1
     ELSE queueWatcher(s1, w)

\* update() that enqueues the watcher whether or not it is marked as queued
WatcherUpdateIgnoresQueuedMark(s, w) ==
  LET s1 == [s EXCEPT !.updLog = Append(@, w)]
  IN IF s1.ws[w].lazy THEN [s1 EXCEPT !.ws[w].dirty = TRUE]
     ELSE IF s1.ws[w].sync THEN WatcherRun(s1, w)
     ELSE queueWatcher([s1 EXCEPT !.has = @ \ {w}], w)

\* update() that ignores a notification of the watcher the flush is running
WatcherUpdateLostWhileRunning(s, w) ==
  LET s1 == [s EXCEPT !.updLog = Append(@, w)]
  IN IF s1.ws[w].lazy THEN [s1 EXCEPT !.ws[w].dirty = TRUE]
     ELSE IF s1.ws[w].sync THEN WatcherRun(s1, w)
     ELSE IF s1.flushing /\ s1.index < Len(s1.queue) /\ s1.queue[s1.index + 1] = w THEN s1
     ELSE queueWatcher(s1, w)

\* update() that tests the sync flag before the lazy flag
WatcherUpdateSyncFirst(s, w) ==
  LET s1 == [s EXCEPT !.updLog = Append(@, w)]
  IN IF s1.ws[w].sync THEN WatcherRun(s1, w)
     ELSE IF s1.ws[w].lazy THEN [s1 EXCEPT !.ws[w].dirty = TRUE]
     ELSE queueWatcher(s1, w)

\* update() that runs the watcher in place while a flush is in progress
WatcherUpdateInPlaceInFlush(s, w) ==
  LET s1 == [s EXCEPT !.updLog = Append(@, w)]
  IN IF s1.ws[w].lazy THEN [s1 EXCEPT !.ws[w].dirty = TRUE]
     ELSE IF s1.ws[w].sync \/ s1.flushing THEN WatcherRun(s1, w)
     ELSE queueWatcher(s1, w)

\* update() with the test of the sync flag inverted
WatcherUpdateSyncInverted(s, w) ==
  LET s1 == [s EXCEPT !.updLog = Append(@, w)]
  IN IF s1.ws[w].lazy THEN [s1 EXCEPT !.ws[w].dirty = TRUE]
     ELSE IF ~s1.ws[w].sync THEN WatcherRun(s1, w)
     ELSE queueWatcher(s1, w)

\* update() without the lazy branch: a lazy watcher is queued like any other
WatcherUpdateNoLazyBranch(s, w) ==
  LET s1 == [s EXCEPT !.updLog = Append(@, w)]
  IN IF s1.ws[w].sync THEN WatcherRun(s1, w)
     ELSE queueWatcher(s1, w)

WatcherUpdate(s, w) ==
  LET s1 == [s EXCEPT !.updLog = Append(@, w)]
  IN IF s1.ws[w].lazy THEN [s1 EXCEPT !.ws[w].dirty = TRUE]
     ELSE IF s1.ws[w].sync THEN WatcherRun(s1, w)
     ELSE queueWatcher(s1, w)

\* the loop of notify() over the snapshot subs.slice()
notifyEach(s, snapshot) ==
  IF snapshot = <<>> \/ s.exc # NoExc THEN s
  ELSE notifyEach(WatcherUpdate(s, Head(snapshot)), Tail(snapshot))

\* notify()
RECURSIVE notifyLive(_, _, _)
\* notify() that walks the live subscriber list by index, without a snapshot
notifyLive(s, d, i) ==
  IF i > Len(s.subs[d]) \/ s.exc # NoExc THEN s
  ELSE notifyLive(WatcherUpdate(s, s.subs[d][i]), d, i + 1)

DepNotifyLive(s, d) == notifyLive([s EXCEPT !.notifyLog = Append(@, d)], d, 1)

DepNotify(s, d) == notifyEach([s EXCEPT !.notifyLog = Append(@, d)], s.subs[d])

\* the setter without the NaN test of its no-change guard
reactiveSetterNoNaN(s, o, k, newVal) ==
  LET value == s.val[o][k]
  IN IF StrictEq(newVal, value) THEN s
     ELSE The({ DepNotify([s1 EXCEPT !.childOb[o][k] = s1.ret, !.ret = Undefined],
                          s.keyDep[o][k])
                : s1 \in {observe([s EXCEPT !.val[o][k] = newVal], newVal, FALSE)} })

\* the setter that notifies the key's Dep before it observes the new value
reactiveSetterNotifyFirst(s, o, k, newVal) ==
  LET value == s.val[o][k]
  IN IF StrictEq(newVal, value) \/ (~StrictEq(newVal, newVal) /\ ~StrictEq(value, value))
     THEN s
     ELSE The({ The({ [s2 EXCEPT !.childOb[o][k] = s2.ret, !.ret = Undefined]
                      : s2 \in {observe(s1, newVal, FALSE)} })
                : s1 \in {DepNotify([s EXCEPT !.val[o][k] = newVal], s.keyDep[o][k])} })

reactiveSetter(s, o, k, newVal) ==
  LET value == s.val[o][k]
  IN IF StrictEq(newVal, value) \/ (~StrictEq(newVal, newVal) /\ ~StrictEq(value, value))
     THEN s
     ELSE The({ DepNotify([s1 EXCEPT !.childOb[o][k] = s1.ret, !.ret = Undefined],
                          s.keyDep[o][k])
                : s1 \in {observe([s EXCEPT !.val[o][k] = newVal], newVal, FALSE)} })

\* an assignment obj[key] = v: through the accessor when the key is converted,
\* a plain store otherwise (a new key is created on an extensible object)
PutProp(s, o, k, v) ==
  IF s.keyDep[o][k] >= 0 THEN reactiveSetter(s, o, k, v)
  ELSE IF hasOwn(s, o, k) THEN [s EXCEPT !.val[o][k] = v]
  ELSE IF isExtensible(o)
       THEN [s EXCEPT !.val[o][k] = v, !.okeys[o] = Append(@, k)]
       ELSE s

\* set() that stores the value as a plain property on a root container
setStoreOnRoot(s, o, k, v) ==
  IF hasOwn(s, o, k) /\ ~InObjectPrototype(k) THEN PutProp(s, o, k, v)
  ELSE IF s.ob[o].has /\ s.ob[o].vmCount # 0
       THEN PutProp([s EXCEPT !.errLog = Append(@, "warn: avoid adding reactive properties")],
                    o, k, v)
  ELSE IF ~s.ob[o].has THEN PutProp(s, o, k, v)
  ELSE DepNotify(defineReactive(s, o, k, v, 3, FALSE), s.ob[o].dep)

\* set() that does not notify the container's Dep
setNoNotify(s, o, k, v) ==
  IF hasOwn(s, o, k) /\ ~InObjectPrototype(k) THEN PutProp(s, o, k, v)
  ELSE IF s.ob[o].has /\ s.ob[o].vmCount # 0
       THEN [s EXCEPT !.errLog = Append(@, "warn: avoid adding reactive properties")]
  ELSE IF ~s.ob[o].has THEN PutProp(s, o, k, v)
  ELSE defineReactive(s, o, k, v, 3, FALSE)

\* set(target, key, val) on a plain object target
set(s, o, k, v) ==
  IF hasOwn(s, o, k) /\ ~InObjectPrototype(k) THEN PutProp(s, o, k, v)
  ELSE IF s.ob[o].has /\ s.ob[o].vmCount # 0
       THEN [s EXCEPT !.errLog = Append(@, "warn: avoid adding reactive properties")]
  ELSE IF ~s.ob[o].has THEN PutProp(s, o, k, v)
  ELSE DepNotify(defineReactive(s, o, k, v, 3, FALSE), s.ob[o].dep)

\* delete target[key]
DeleteProp(s, o, k) ==
  [s EXCEPT !.val[o][k] = Absent, !.keyDep[o][k] = -1, !.childOb[o][k] = NoOb,
            !.okeys[o] = Remove(@, k)]

\* del() without the own-key test
delNoOwnTest(s, o, k) ==
  IF s.ob[o].has /\ s.ob[o].vmCount # 0
  THEN [s EXCEPT !.errLog = Append(@, "warn: avoid deleting properties")]
  ELSE IF ~s.ob[o].has THEN DeleteProp(s, o, k)
       ELSE DepNotify(DeleteProp(s, o, k), s.ob[o].dep)

\* del(target, key) on a plain object target
del(s, o, k) ==
  IF s.ob[o].has /\ s.ob[o].vmCount # 0
  THEN [s EXCEPT !.errLog = Append(@, "warn: avoid deleting properties")]
  ELSE IF ~hasOwn(s, o, k) THEN s
  ELSE IF ~s.ob[o].has THEN DeleteProp(s, o, k)
       ELSE DepNotify(DeleteProp(s, o, k), s.ob[o].dep)

\* ---------------------------------------------- evaluators and callbacks
\* The evaluator functions handed to the Watcher constructor, over the data
\* root R (this.getter.call(vm, vm)):
\*   "a"    function () { return this.a }
\*   "o"    function () { return this.o }
\*   "ox"   the path o.x        "on"   the path o.n
\*   "cond" function () { return this.a === 1 ? this.o : this.a }
\*   "guard" function () { if (this.a === 2) throw new Error(); return this.o.x }
\*   "nest" function () { if (c && c.lazy) c.evaluate(); return this.a }
\*          where c is the watcher of id 1, as a getter that reads a computed value
\*   "twice" function () { this.a; return this.a }
\*   "via"  function () { if (c.dirty) c.evaluate(); c.depend(); return c.value }
\*          where c is the lazy watcher of id 1 (function () { return this.a }
\*          when there is none)
\*   "lazyif" function () { var a = this.a; if (a === 2) c.evaluate(); return a }
\*          where c is the lazy watcher of id 1
Getters == {"a", "o", "ox", "on", "cond", "guard", "nest", "twice", "via", "lazyif"}

\* the exception a getter or a callback of the consumer throws
UserError == "Error"

evalPath(s, k) ==
  The({ IF isObject(s1.ret) THEN GetProp(s1, s1.ret, k) ELSE [s1 EXCEPT !.ret = Undefined]
        : s1 \in {GetProp(s, "R", "o")} })

evaluator(s, w) ==
  LET g == s.ws[w].getter
  IN CASE g = "a" -> GetProp(s, "R", "a")
       [] g = "o" -> GetProp(s, "R", "o")
       [] g = "ox" -> evalPath(s, "x")
       [] g = "on" -> evalPath(s, "n")
       [] g = "cond" -> The({ IF s1.ret = "1" THEN GetProp(s1, "R", "o") ELSE s1
                              : s1 \in {GetProp(s, "R", "a")} })
       [] g = "nest" -> IF w # 1 /\ 1 \in DOMAIN s.ws /\ s.ws[1].lazy
                        THEN The({ IF s1.exc # NoExc THEN s1 ELSE GetProp(s1, "R", "a")
                                   : s1 \in {WatcherEvaluate(s, 1)} })
                        ELSE GetProp(s, "R", "a")
       [] g = "twice" -> GetProp(GetProp(s, "R", "a"), "R", "a")
       [] g = "via" -> IF w # 1 /\ 1 \in DOMAIN s.ws /\ s.ws[1].lazy
                       THEN The({ IF s1.exc # NoExc THEN s1
                                  ELSE The({ [s2 EXCEPT !.ret = s2.ws[1].value]
                                             : s2 \in {WatcherDepend(s1, 1)} })
                                  : s1 \in { IF s.ws[1].dirty THEN WatcherEvaluate(s, 1)
                                             ELSE s } })
                       ELSE GetProp(s, "R", "a")
       [] g = "lazyif" -> The({ IF s1.ret = "2" /\ w # 1 /\ s1.ws[1].lazy
                                THEN The({ IF s2.exc # NoExc THEN s2
                                           ELSE [s2 EXCEPT !.ret = s1.ret]
                                           : s2 \in {WatcherEvaluate(s1, 1)} })
                                ELSE s1
                                : s1 \in {GetProp(s, "R", "a")} })
       [] g = "guard" -> The({ IF s1.ret = "2"
                               THEN [s1 EXCEPT !.exc = UserError, !.ret = Undefined]
                               ELSE evalPath(s1, "x")
                               : s1 \in {GetProp(s, "R", "a")} })

RECURSIVE traverseKeys(_, _, _)
\* the deep-watch touch: read every key of every nested object (the heap is acyclic)
traverseKeys(s, o, ks) ==
  IF ks = <<>> THEN s
  ELSE The({ traverseKeys(traverse(s1, s1.ret), o, Tail(ks))
             : s1 \in {GetProp(s, o, Head(ks))} })

RECURSIVE traverseItems(_, _)
\* the deep-watch touch of a list: descend into every element
traverseItems(s, items) ==
  IF items = <<>> THEN s ELSE traverseItems(traverse(s, Head(items)), Tail(items))

traverse(s, v) ==
  IF isArray(v) THEN traverseItems(s, Elems(v))
  ELSE IF isObject(v) THEN traverseKeys(s, v, s.okeys[v]) ELSE s

\* get() that does not pop the active-watcher stack
WatcherGetNoPop(s, w) ==
  The({
    The({
      The({ [cleanupDeps(s3, w) EXCEPT !.ret = value, !.ws[w].evaluated = TRUE]
            : s3 \in { IF s2.ws[w].deep
                       THEN [traverse([s2 EXCEPT !.exc = NoExc], value)
                             EXCEPT !.exc = s2.exc]
                       ELSE s2 } })
      : s2 \in { IF s1.exc # NoExc /\ s1.ws[w].user
                 THEN [s1 EXCEPT !.errLog = Append(@, "error: getter for watcher"),
                                 !.exc = NoExc]
                 ELSE s1 },
        value \in { IF s1.exc # NoExc THEN Undefined ELSE s1.ret } })
    : s1 \in { evaluator(pushTarget(
                 [s EXCEPT !.evalLog = Append(@, w),
                           !.ws[w].prevDeps = SeqSet(s.ws[w].deps),
                           !.ws[w].readLog = {},
                           !.evalInFlush[w] = IF s.flushing THEN @ + 1 ELSE @], w), w) } })

\* get() that reports the exception of every getter and throws none
WatcherGetSwallowsAll(s, w) ==
  The({
    The({
      The({ [cleanupDeps(popTarget(s3), w) EXCEPT !.ret = value, !.ws[w].evaluated = TRUE]
            : s3 \in { IF s2.ws[w].deep THEN traverse(s2, value) ELSE s2 } })
      : s2 \in { IF s1.exc # NoExc
                 THEN [s1 EXCEPT !.errLog = Append(@, "error: getter for watcher"),
                                 !.exc = NoExc]
                 ELSE s1 },
        value \in { IF s1.exc # NoExc THEN Undefined ELSE s1.ret } })
    : s1 \in { evaluator(pushTarget(
                 [s EXCEPT !.evalLog = Append(@, w),
                           !.ws[w].prevDeps = SeqSet(s.ws[w].deps),
                           !.ws[w].readLog = {},
                           !.evalInFlush[w] = IF s.flushing THEN @ + 1 ELSE @], w), w) } })

\* get() without the finally block: an exception that is thrown on skips
\* popTarget and cleanupDeps
WatcherGetNoFinally(s, w) ==
  The({
    The({
      The({ IF s3.exc # NoExc THEN [s3 EXCEPT !.ret = value, !.ws[w].evaluated = TRUE]
            ELSE [cleanupDeps(popTarget(s3), w)
                    EXCEPT !.ret = value, !.ws[w].evaluated = TRUE]
            : s3 \in { IF s2.ws[w].deep /\ s2.exc = NoExc THEN traverse(s2, value) ELSE s2 } })
      : s2 \in { IF s1.exc # NoExc /\ s1.ws[w].user
                 THEN [s1 EXCEPT !.errLog = Append(@, "error: getter for watcher"),
                                 !.exc = NoExc]
                 ELSE s1 },
        value \in { IF s1.exc # NoExc THEN Undefined ELSE s1.ret } })
    : s1 \in { evaluator(pushTarget(
                 [s EXCEPT !.evalLog = Append(@, w),
                           !.ws[w].prevDeps = SeqSet(s.ws[w].deps),
                           !.ws[w].readLog = {},
                           !.evalInFlush[w] = IF s.flushing THEN @ + 1 ELSE @], w), w) } })

\* get(): pushTarget, the evaluator in try / catch / finally, popTarget, cleanupDeps.
\* prevDeps, readLog, evaluated, evalLog and evalInFlush are history.
WatcherGet(s, w) ==
  The({
    The({
      The({ [cleanupDeps(popTarget(s3), w) EXCEPT !.ret = value, !.ws[w].evaluated = TRUE]
            : s3 \in { IF s2.ws[w].deep
                       THEN [traverse([s2 EXCEPT !.exc = NoExc], value)
                             EXCEPT !.exc = s2.exc]
                       ELSE s2 } })
      : s2 \in { IF s1.exc # NoExc /\ s1.ws[w].user
                 THEN [s1 EXCEPT !.errLog = Append(@, "error: getter for watcher"),
                                 !.exc = NoExc]
                 ELSE s1 },
        value \in { IF s1.exc # NoExc THEN Undefined ELSE s1.ret } })
    : s1 \in { evaluator(pushTarget(
                 [s EXCEPT !.evalLog = Append(@, w),
                           !.ws[w].prevDeps = SeqSet(s.ws[w].deps),
                           !.ws[w].readLog = {},
                           !.evalInFlush[w] = IF s.flushing THEN @ + 1 ELSE @], w), w) } })

\* teardown() that leaves the watcher subscribed
WatcherTeardownNoUnsub(s, w) ==
  IF s.ws[w].active THEN [s EXCEPT !.ws[w].active = FALSE] ELSE s

RECURSIVE teardownLoop(_, _, _)
teardownLoop(s, w, i) ==
  IF i = 0 THEN s ELSE teardownLoop(removeSub(s, s.ws[w].deps[i], w), w, i - 1)

\* teardown() (the owner's _watchers list belongs to the component instance)
WatcherTeardown(s, w) ==
  IF s.ws[w].active
  THEN [teardownLoop(s, w, Len(s.ws[w].deps)) EXCEPT !.ws[w].active = FALSE]
  ELSE s

\* The callbacks handed to the Watcher constructor:
\*   "none"  function () {}
\*   "write" function () { <o>.<k> = <v> }
\*   "teardown" function () { <watcher t>.teardown() }
\*   "toggle" function () { <o>.<k> = <o>.<k> === 1 ? 2 : 1 }
\*   "throw" function () { throw new Error() }
NoCb == [kind |-> "none", o |-> "R", k |-> "a", v |-> Undefined, t |-> 0]
WriteCb(o, k, v) == [kind |-> "write", o |-> o, k |-> k, v |-> v, t |-> 0]
TeardownCb(t) == [kind |-> "teardown", o |-> "R", k |-> "a", v |-> Undefined, t |-> t]
ToggleCb(o, k) == [kind |-> "toggle", o |-> o, k |-> k, v |-> Undefined, t |-> 0]
ThrowCb == [kind |-> "throw", o |-> "R", k |-> "a", v |-> Undefined, t |-> 0]

callback(s, w, value, oldValue) ==
  LET cb == s.ws[w].cb
      s1 == [s EXCEPT !.cbLog = Append(@, [w |-> w, new |-> value, old |-> oldValue])]
  IN CASE cb.kind = "none" -> s1
       [] cb.kind = "write" ->
            PutProp([s1 EXCEPT !.cbWrote = @ \/ s.flushing], cb.o, cb.k, cb.v)
       [] cb.kind = "teardown" ->
            IF cb.t \in DOMAIN s1.ws THEN WatcherTeardown(s1, cb.t) ELSE s1
       [] cb.kind = "throw" -> [s1 EXCEPT !.exc = UserError]
       [] cb.kind = "toggle" ->
            The({ PutProp([s2 EXCEPT !.cbWrote = @ \/ s.flushing], cb.o, cb.k,
                          IF s2.ret = "1" THEN "2" ELSE "1")
                  : s2 \in {GetProp(s1, cb.o, cb.k)} })

\* run() that calls the callback of a user watcher outside try / catch
WatcherRunCallbackUnguarded(s, w) ==
  IF ~s.ws[w].active THEN s
  ELSE The({ IF s1.exc # NoExc THEN s1
             ELSE IF ~StrictEq(s1.ret, s1.ws[w].value) \/ isObject(s1.ret) \/ s1.ws[w].deep
             THEN callback([s1 EXCEPT !.ws[w].value = s1.ret], w, s1.ret, s1.ws[w].value)
             ELSE s1
             : s1 \in {WatcherGet(s, w)} })

\* run() without the active test
WatcherRunNoActiveTest(s, w) ==
  The({ IF s1.exc # NoExc THEN s1
        ELSE IF ~StrictEq(s1.ret, s1.ws[w].value) \/ isObject(s1.ret) \/ s1.ws[w].deep
        THEN callback([s1 EXCEPT !.ws[w].value = s1.ret], w, s1.ret, s1.ws[w].value)
        ELSE s1
        : s1 \in {WatcherGet(s, w)} })

\* run() that fires the callback on every re-evaluation
WatcherRunAlwaysFire(s, w) ==
  IF ~s.ws[w].active THEN s
  ELSE The({ IF s1.exc # NoExc THEN s1
             ELSE callback([s1 EXCEPT !.ws[w].value = s1.ret], w, s1.ret, s1.ws[w].value)
             : s1 \in {WatcherGet(s, w)} })

\* run()
WatcherRun(s, w) ==
  IF ~s.ws[w].active THEN s
  ELSE The({ IF s1.exc # NoExc THEN s1
             ELSE IF ~StrictEq(s1.ret, s1.ws[w].value) \/ isObject(s1.ret) \/ s1.ws[w].deep
             THEN The({ IF s2.ws[w].user /\ s2.exc # NoExc
                        THEN [s2 EXCEPT !.errLog = Append(@, "error: callback for watcher"),
                                        !.exc = NoExc]
                        ELSE s2
                        : s2 \in { callback([s1 EXCEPT !.ws[w].value = s1.ret], w,
                                            s1.ret, s1.ws[w].value) } })
             ELSE s1
             : s1 \in {WatcherGet(s, w)} })

\* evaluate() that leaves the dirty flag set
WatcherEvaluateStaysDirty(s, w) ==
  The({ IF s1.exc # NoExc THEN s1
        ELSE [s1 EXCEPT !.ws[w].value = s1.ret]
        : s1 \in {WatcherGet(s, w)} })

\* evaluate()
WatcherEvaluate(s, w) ==
  The({ IF s1.exc # NoExc THEN s1
        ELSE [s1 EXCEPT !.ws[w].value = s1.ret, !.ws[w].dirty = FALSE]
        : s1 \in {WatcherGet(s, w)} })

\* the while (i--) loop of depend()
dependEach(s, w, i) ==
  IF i = 0 THEN s ELSE dependEach(DepDepend(s, s.ws[w].deps[i]), w, i - 1)

\* depend() whose loop stops before the first dependency
WatcherDependSkipsFirst(s, w) ==
  IF s.ws[w].deps = <<>> THEN s
  ELSE The({ [s1 EXCEPT !.ws[w].deps = s.ws[w].deps]
             : s1 \in {dependEach([s EXCEPT !.ws[w].deps = Tail(@)], w,
                                  Len(s.ws[w].deps) - 1)} })

\* depend()
WatcherDepend(s, w) == dependEach(s, w, Len(s.ws[w].deps))

\* new Watcher(vm, expOrFn, cb, options): id = ++uid, the flags, empty
\* dependency sets, value = lazy ? undefined : get()
NewWatcher(s, g, cb, opt) ==
  LET w == Len(s.ws) + 1
      rec == [getter |-> g, cb |-> cb, deep |-> opt.deep, user |-> opt.user,
              lazy |-> opt.lazy, sync |-> opt.sync, dirty |-> opt.lazy,
              active |-> TRUE, deps |-> <<>>, newDeps |-> <<>>, depIds |-> {},
              newDepIds |-> {}, value |-> Undefined,
              prevDeps |-> {}, readLog |-> {}, evaluated |-> FALSE]
  IN IF opt.lazy THEN [s EXCEPT !.ws = Append(@, rec)]
     ELSE The({ IF s2.exc # NoExc THEN s2 ELSE [s2 EXCEPT !.ws[w].value = s2.ret]
                : s2 \in {WatcherGet([s EXCEPT !.ws = Append(@, rec)], w)} })

\* -------------------------------------------------------- scheduler flush
RECURSIVE SortById(_)
\* queue.sort((a, b) => a.id - b.id): insertion of the head into the sorted tail
SortById(q) ==
  IF q = <<>> THEN q
  ELSE The({ SelectSeq(r, LAMBDA x : x < Head(q)) \o <<Head(q)>>
             \o SelectSeq(r, LAMBDA x : x >= Head(q))
             : r \in {SortById(Tail(q))} })

\* flush(), its start: mark the flush in progress and sort the queue
flushBegin(s) ==
  [s EXCEPT !.flushing = TRUE, !.queue = SortById(@), !.index = 0,
            !.flTouched = s.touched, !.flWrites = s.nWrites,
            !.touched = {}, !.nWrites = 0,
            !.warned = [w \in DOMAIN @ |-> 0]]

\* the report of a runaway update cycle, which names the computation
LoopWarning(w) == "warn: infinite update loop in watcher " \o ToString(w)

\* flush(), one turn of the drain loop at the cursor: clear the queued mark,
\* run the computation, count a re-entry, and past the threshold report the
\* loop once and take the computation out of the rest of this flush
flushStep(s) ==
  LET w == s.queue[s.index + 1]
  IN The({ IF s1.exc # NoExc THEN s1
           ELSE IF w \in s1.has
           THEN IF s1.circular[w] + 1 > MAX_UPDATE_COUNT
                THEN [s1 EXCEPT !.circular[w] = @ + 1,
                                !.errLog = Append(@, LoopWarning(w)),
                                !.warned[w] = @ + 1,
                                !.dropped = @ \cup {w},
                                !.queue = SubSeq(@, 1, s1.index + 1)
                                          \o SelectSeq(SubSeq(@, s1.index + 2, Len(@)),
                                                       LAMBDA x : x # w),
                                !.index = @ + 1]
                ELSE [s1 EXCEPT !.circular[w] = @ + 1, !.index = @ + 1]
           ELSE [s1 EXCEPT !.index = @ + 1]
           : s1 \in {WatcherRun([s EXCEPT !.has = @ \ {w}], w)} })

\* flush(), its end: reset all bookkeeping
resetSchedulerState(s) ==
  [s EXCEPT !.index = 0, !.queue = <<>>, !.has = {},
            !.circular = [w \in DOMAIN @ |-> 0],
            !.waiting = FALSE, !.flushing = FALSE,
            !.flTouched = {}, !.flWrites = 0,
            !.evalInFlush = [w \in DOMAIN @ |-> 0], !.cbWrote = FALSE]

\* ---------------------------------------------------------------- actions
\* The history of a step: the entry point, its arguments (object, key, value,
\* watcher), the value the key held before, and the value returned
Op(op, o, k, v, w, old) ==
  [op |-> op, o |-> o, k |-> k, v |-> v, w |-> w, old |-> old, ret |-> Undefined]

Bounded(s) ==
  /\ depUid(s) <= MaxDeps /\ Len(s.ws) <= MaxWatchers
  /\ \A p \in Objs : s.ob[p].vmCount <= MaxRoots

\* The program is single threaded: an entry point is called from outside only
\* when no flush is running and no exception has stopped the program.
Idle == ~flushing /\ exc = NoExc

Options == [deep : BOOLEAN, user : BOOLEAN, lazy : BOOLEAN, sync : BOOLEAN]
Opt(deep, user, lazy, sync) == [deep |-> deep, user |-> user, lazy |-> lazy, sync |-> sync]

\* observe(o, asRootData) called by the consumer
Observe(o, asRoot) ==
  /\ Idle
  /\ \E s \in {observe(St, o, asRoot)} :
        /\ Bounded(s)
        /\ Commit(s, [Op("observe", o, "a", IF asRoot THEN "root" ELSE "child", 0,
                           Undefined) EXCEPT !.ret = s.ret])

\* the assignment o.k = v made by the consumer
Assign(o, k, v) ==
  /\ Idle
  /\ \E s \in {PutProp(IF keyDep[o][k] >= 0 /\ val[o][k] # v
                         THEN [St EXCEPT !.touched = @ \cup SeqSet(subs[keyDep[o][k]]),
                                         !.nWrites = IF @ < MaxWrites THEN @ + 1 ELSE @]
                         ELSE St, o, k, v)} :
        /\ Bounded(s)
        /\ Commit(s, Op("assign", o, k, v, 0, val[o][k]))

\* the assignment o.k = v to a key that is converted, so that the write is
\* intercepted by the key's setter
AssignConverted(o, k, v) == keyDep[o][k] >= 0 /\ Assign(o, k, v)

\* set(o, k, v) called by the consumer
SetProp(o, k, v) ==
  /\ Idle
  /\ \E s \in {set(St, o, k, v)} :
        /\ Bounded(s)
        /\ Commit(s, Op("set", o, k, v, 0, val[o][k]))

\* del(o, k) called by the consumer
DelProp(o, k) ==
  /\ Idle
  /\ \E s \in {del(St, o, k)} :
        /\ Bounded(s)
        /\ Commit(s, Op("del", o, k, Undefined, 0, val[o][k]))

\* new Watcher(vm, g, cb, opt)
Create(g, cb, opt) ==
  /\ Idle
  /\ Len(ws) < MaxWatchers
  /\ \E s \in {NewWatcher(St, g, cb, opt)} :
        /\ Bounded(s)
        /\ Commit(s, Op("create", "R", "a", Undefined, Len(ws) + 1, Undefined))

\* w.teardown() called by the consumer
Teardown(w) ==
  /\ Idle
  /\ w \in DOMAIN ws
  /\ Commit(WatcherTeardown(St, w), Op("teardown", "R", "a", Undefined, w, Undefined))

\* w.evaluate() called by the consumer on a lazy watcher
Evaluate(w) ==
  /\ Idle
  /\ w \in DOMAIN ws
  /\ ws[w].lazy
  /\ \E s \in {WatcherEvaluate(St, w)} :
        /\ Bounded(s)
        /\ Commit(s, Op("evaluate", "R", "a", Undefined, w, Undefined))

\* w.depend() called by the consumer, outside every evaluation
Depend(w) ==
  /\ Idle
  /\ w \in DOMAIN ws
  /\ Commit(WatcherDepend(St, w), Op("depend", "R", "a", Undefined, w, Undefined))

\* the read o.k made by the consumer, outside every evaluation
Read(o, k) ==
  /\ Idle
  /\ \E s \in {GetProp(St, o, k)} :
        Commit(s, [Op("read", o, k, Undefined, 0, val[o][k]) EXCEPT !.ret = s.ret])

\* the tick fires: the scheduled flush starts
FlushBegin ==
  /\ Idle
  /\ waiting
  /\ Commit(flushBegin(St), Op("flushBegin", "R", "a", Undefined, 0, Undefined))

\* one turn of the drain loop
FlushStep ==
  /\ flushing
  /\ exc = NoExc
  /\ index < Len(queue)
  /\ \E s \in {flushStep(St)} :
        /\ Bounded(s)
        /\ Commit(s, Op("flushStep", "R", "a", Undefined, queue[index + 1], Undefined))

\* the queue is drained: the flush ends
FlushEnd ==
  /\ flushing
  /\ exc = NoExc
  /\ index >= Len(queue)
  /\ Commit(resetSchedulerState(St), Op("flushEnd", "R", "a", Undefined, 0, Undefined))

\* The state after the modules are loaded and the data objects are built:
\* R = {a: 1, o: P}, P = {x: 1}, Q = {x: 1}, L = [1, M], M = [Q], nothing
\* observed, no watcher.
Loaded ==
  [okeys |-> [o \in Objs |-> IF o = "R" THEN <<"a", "o">>
                             ELSE IF isArray(o) THEN <<>> ELSE <<"x">>],
   val |-> [o \in Objs |-> [k \in Keys |->
              IF o = "R" THEN (CASE k = "a" -> "1" [] k = "o" -> "P" [] OTHER -> Absent)
              ELSE IF k = "x" /\ ~isArray(o) THEN "1" ELSE Absent]],
   keyDep |-> [o \in Objs |-> [k \in Keys |-> -1]],
   childOb |-> [o \in Objs |-> [k \in Keys |-> NoOb]],
   ob |-> [o \in Objs |-> [has |-> FALSE, dep |-> -1, vmCount |-> 0]],
   shouldObserve |-> TRUE,
   subs |-> [d \in {} |-> <<>>],
   ws |-> <<>>,
   targetStack |-> <<>>,
   queue |-> <<>>, has |-> {}, waiting |-> FALSE, flushing |-> FALSE, index |-> 0,
   circular |-> [w \in 1..MaxWatchers |-> 0],
   exc |-> NoExc, ret |-> Undefined,
   notifyLog |-> <<>>, updLog |-> <<>>, evalLog |-> <<>>, cbLog |-> <<>>,
   errLog |-> <<>>, touched |-> {}, nWrites |-> 0, flTouched |-> {}, flWrites |-> 0,
   evalInFlush |-> [w \in 1..MaxWatchers |-> 0], cbWrote |-> FALSE,
   warned |-> [w \in 1..MaxWatchers |-> 0], dropped |-> {}]

StartIn(s) ==
  /\ okeys = s.okeys /\ val = s.val /\ keyDep = s.keyDep /\ childOb = s.childOb
  /\ ob = s.ob /\ shouldObserve = s.shouldObserve /\ subs = s.subs /\ ws = s.ws
  /\ targetStack = s.targetStack /\ queue = s.queue /\ has = s.has
  /\ waiting = s.waiting /\ flushing = s.flushing /\ index = s.index
  /\ circular = s.circular /\ exc = s.exc
  /\ lastOp = Op("init", "R", "a", Undefined, 0, Undefined)
  /\ notifyLog = <<>> /\ updLog = <<>> /\ evalLog = <<>> /\ cbLog = <<>> /\ errLog = <<>>
  /\ touched = s.touched /\ nWrites = s.nWrites
  /\ flTouched = s.flTouched /\ flWrites = s.flWrites
  /\ evalInFlush = s.evalInFlush /\ cbWrote = s.cbWrote /\ warned = s.warned
  /\ dropped = s.dropped

\* ------------------------------------------------------- specifications
\* Spec: an instance whose data root R has been observed (observe(R, true))
\* declares watchers and tears them down, assigns keys of the root and of its
\* child, and lets the scheduled flush run.
Init == StartIn(observe(Loaded, "R", TRUE))

Templates ==
  { <<"a", NoCb, Opt(FALSE, FALSE, FALSE, FALSE)>>,
    <<"ox", WriteCb("R", "a", "2"), Opt(FALSE, TRUE, FALSE, FALSE)>>,
    <<"a", NoCb, Opt(FALSE, TRUE, FALSE, TRUE)>>,
    <<"cond", NoCb, Opt(FALSE, TRUE, FALSE, FALSE)>>,
    <<"cond", NoCb, Opt(TRUE, FALSE, FALSE, FALSE)>> }

Writes ==
  {<<"R", "a", v>> : v \in {"1", "2", NaN}} \cup {<<"P", "x", v>> : v \in {"1", "2"}}
  \cup {<<"R", "o", "P">>}

Next ==
  \/ \E x \in Writes : Assign(x[1], x[2], x[3])
  \/ \E t \in Templates : Create(t[1], t[2], t[3])
  \/ FlushBegin
  \/ FlushStep
  \/ FlushEnd

Spec == Init /\ [][Next]_vars

\* ----------------------------------------------------------------- claims
Count(q, x) == Cardinality({i \in DOMAIN q : q[i] = x})
\* the drain loop of a flush has run to its end
Drained == flushing /\ exc = NoExc /\ index >= Len(queue)

\* C1: when a flush has drained in which no callback changed state, every
\* watcher that is neither lazy nor sync and was subscribed to a key at the
\* time a write changed it before the flush has been evaluated exactly once
\* in the flush, however many keys were written and however often; and no
\* such watcher has been evaluated twice.
BatchOnce ==
  (Drained /\ ~cbWrote) =>
    \A w \in DOMAIN ws :
      (~ws[w].lazy /\ ~ws[w].sync /\ ws[w].active) =>
        /\ evalInFlush[w] <= 1
        /\ w \in flTouched => evalInFlush[w] = 1

BatchOnceWitness ==
  /\ Drained /\ ~cbWrote /\ flWrites >= 2
  /\ \E w1, w2 \in flTouched :
       /\ w1 # w2
       /\ ~ws[w1].sync /\ ~ws[w2].sync
       /\ evalInFlush[w1] = 1 /\ evalInFlush[w2] = 1

\* C2: after every completed evaluation of a watcher its confirmed
\* dependency set is exactly the set of Deps whose depend() ran while it was
\* the active watcher of that evaluation, the in-progress set is empty, and
\* it is no longer subscribed to a Dep that was confirmed before and not read.
DepAccuracy ==
  \A w \in DOMAIN ws :
    ws[w].evaluated =>
      /\ SeqSet(ws[w].deps) = ws[w].readLog
      /\ ws[w].depIds = ws[w].readLog
      /\ ws[w].newDeps = <<>> /\ ws[w].newDepIds = {}
      /\ \A d \in ws[w].prevDeps \ ws[w].readLog : w \notin SeqSet(subs[d])

DepAccuracyWitness ==
  \E w \in DOMAIN ws :
    /\ ws[w].evaluated
    /\ ws[w].prevDeps \ ws[w].readLog # {}
    /\ ws[w].readLog # {}

\* C4: an assignment to a converted key of the value it already holds (the
\* same reference, or NaN over NaN) runs no notify(), no update(), no
\* evaluator and no callback, enqueues nothing, and leaves the stored values
\* and the child observers as they were.
NoOpWriteSilent ==
  [][(/\ lastOp'.op = "assign"
      /\ keyDep[lastOp'.o][lastOp'.k] >= 0
      /\ lastOp'.v = val[lastOp'.o][lastOp'.k])
     => /\ notifyLog' = <<>> /\ updLog' = <<>> /\ evalLog' = <<>> /\ cbLog' = <<>>
        /\ queue' = queue /\ has' = has /\ waiting' = waiting
        /\ val' = val /\ childOb' = childOb /\ ob' = ob
        /\ subs' = subs /\ ws' = ws]_vars

NoOpWriteWitness ==
  /\ lastOp.op = "assign" /\ lastOp.o = "R" /\ lastOp.k = "a"
  /\ lastOp.v = NaN /\ lastOp.old = NaN
  /\ keyDep["R"]["a"] >= 0
  /\ subs[keyDep["R"]["a"]] # <<>>

\* What the evaluator of watcher w returns on the current data
Expected(w) ==
  LET g == ws[w].getter
      o == val["R"]["o"]
  IN CASE g = "a" -> val["R"]["a"]
       [] g = "o" -> o
       [] g = "ox" -> IF isObject(o) /\ val[o]["x"] # Absent THEN val[o]["x"] ELSE Undefined
       [] g = "on" -> IF isObject(o) /\ val[o]["n"] # Absent THEN val[o]["n"] ELSE Undefined
       [] g = "cond" -> IF val["R"]["a"] = "1" THEN o ELSE val["R"]["a"]

CbsOf(q, w) == SelectSeq(q, LAMBDA e : e.w = w)

\* the turn of the drain loop that runs watcher w, with differs(new, old) as
\* the test of a changed value
RunFires(differs(_, _)) ==
  \A w \in DOMAIN ws :
    (lastOp'.op = "flushStep" /\ lastOp'.w = w /\ ws[w].active) =>
      LET new == Expected(w)
          old == ws[w].value
      IN /\ Count(evalLog', w) = 1
         /\ IF differs(new, old) \/ isObject(new) \/ ws[w].deep
            THEN /\ CbsOf(cbLog', w) = <<[w |-> w, new |-> new, old |-> old]>>
                 /\ ws'[w].value = new
            ELSE /\ CbsOf(cbLog', w) = <<>>
                 /\ ws'[w].value = old

\* C5 as stated: the callback fires, once, with (new, cached), and the cache
\* is replaced, exactly when the re-evaluated value is another value than the
\* cached one, or is an object, or the watcher is deep; a primitive written
\* away and back leaves the callback unfired.
RunFiresOnOtherValue == [][RunFires(LAMBDA x, y : x # y)]_vars

\* C5 as amended: "differs" is the strict inequality !==, under which NaN
\* differs from NaN.
RunFiresOnStrictInequality == [][RunFires(LAMBDA x, y : ~StrictEq(x, y))]_vars

RunFiresWitness ==
  /\ lastOp.op = "flushStep" /\ flWrites >= 2
  /\ evalLog = <<lastOp.w>> /\ cbLog = <<>>
  /\ ~ws[lastOp.w].deep /\ ~isObject(ws[lastOp.w].value)

\* SpecTeardown: as Spec, with watchers torn down by the consumer and by a
\* callback.
TeardownTemplates ==
  { <<"a", TeardownCb(2), Opt(FALSE, TRUE, FALSE, FALSE)>>,
    <<"cond", NoCb, Opt(FALSE, TRUE, FALSE, FALSE)>>,
    <<"ox", NoCb, Opt(FALSE, FALSE, FALSE, FALSE)>> }

TeardownWrites ==
  {<<"R", "a", v>> : v \in {"1", "2"}} \cup {<<"P", "x", v>> : v \in {"1", "2"}}

NextTeardown ==
  \/ \E x \in TeardownWrites : Assign(x[1], x[2], x[3])
  \/ \E t \in TeardownTemplates : Create(t[1], t[2], t[3])
  \/ \E w \in 1..MaxWatchers : Teardown(w)
  \/ FlushBegin
  \/ FlushStep
  \/ FlushEnd

SpecTeardown == Init /\ [][NextTeardown]_vars

InertAfterTeardown ==
  [][/\ \A w \in DOMAIN ws :
          ~ws[w].active =>
            /\ Count(evalLog', w) = 0
            /\ CbsOf(cbLog', w) = <<>>
            /\ ~ws'[w].active
            /\ (lastOp'.op = "flushStep" /\ lastOp'.w = w) =>
                 (exc' = NoExc /\ evalLog' = <<>> /\ cbLog' = <<>> /\ index' = index + 1)
     /\ \A w \in DOMAIN ws' :
          ~ws'[w].active => \A d \in DOMAIN subs' : w \notin SeqSet(subs'[d])]_vars

InertWitness ==
  /\ lastOp.op = "flushStep"
  /\ ~ws[lastOp.w].active
  /\ evalLog = <<>>
  /\ ws[lastOp.w].deps # <<>>

\* SpecConv: R is the root data of one instance and P its child object; the
\* consumer observes them again, as root data or not, adds, deletes and
\* assigns keys, and declares watchers on the child object; no flush runs.
InitConv == StartIn(observe(Loaded, "R", TRUE))

ConvTemplates ==
  { <<"o", NoCb, Opt(FALSE, FALSE, FALSE, FALSE)>>,
    <<"on", NoCb, Opt(FALSE, TRUE, FALSE, TRUE)>> }

ConvProps == {<<"P", "n">>, <<"P", "x">>, <<"R", "n">>}
ConvWrites == {<<"P", "x", "2">>, <<"P", "n", "1">>}

NextConv ==
  \/ \E o \in {"R", "P"}, r \in BOOLEAN : Observe(o, r)
  \/ \E x \in ConvWrites : Assign(x[1], x[2], x[3])
  \/ \E x \in ConvProps : SetProp(x[1], x[2], "1")
  \/ \E x \in ConvProps : DelProp(x[1], x[2])
  \/ \E t \in ConvTemplates : Create(t[1], t[2], t[3])

SpecConv == InitConv /\ [][NextConv]_vars

\* the container of the last step has an Observer that no instance uses as root
WrappedNonRoot(o) == ob[o].has /\ ob[o].vmCount = 0
WrappedRoot(o) == ob[o].has /\ ob[o].vmCount # 0
\* everything but key k of object o is stored as before
FrameOf(o, k) ==
  /\ \A p \in Objs : \A j \in Keys : (p # o \/ j # k) =>
       (val'[p][j] = val[p][j] /\ keyDep'[p][j] = keyDep[p][j])
  /\ \A p \in Objs \ {o} : okeys'[p] = okeys[p]
  /\ ob' = ob

\* C7: set() of a key that is not an own key of a wrapped, non-root plain
\* object makes the key an accessor over a Dep of its own, created by the
\* call, and runs notify() once, on the Dep of the container, so that update()
\* runs once on every subscriber of that Dep; an assignment of a key that is
\* not an own key runs no notify() and no update() and leaves the key a plain
\* property.
AddPropertyNotifies ==
  [][LET o == lastOp'.o
         k == lastOp'.k
     IN /\ (lastOp'.op = "set" /\ WrappedNonRoot(o) /\ ~hasOwn(St, o, k)) =>
             /\ keyDep'[o][k] \in DOMAIN subs' \ DOMAIN subs
             /\ \A p \in Objs : \A j \in Keys :
                  (p # o \/ j # k) => keyDep'[p][j] # keyDep'[o][k]
             /\ \A p \in Objs : ob'[p].dep # keyDep'[o][k]
             /\ val'[o][k] = lastOp'.v
             /\ notifyLog' = <<ob[o].dep>>
             /\ updLog' = subs[ob[o].dep]
             /\ exc' = NoExc
        /\ (lastOp'.op = "assign" /\ ~hasOwn(St, o, k)) =>
             /\ notifyLog' = <<>> /\ updLog' = <<>> /\ evalLog' = <<>>
             /\ keyDep'[o][k] = -1
             /\ val'[o][k] = lastOp'.v
             /\ subs' = subs]_vars

AddPropertyWitness ==
  /\ lastOp.op = "set" /\ lastOp.o = "P"
  /\ notifyLog = <<ob["P"].dep>>
  /\ Len(updLog) = 2
  /\ keyDep["P"]["n"] >= 0

\* the step is a set() of a key that is not an own key of a root container
SetOnRoot == lastOp'.op = "set" /\ WrappedRoot(lastOp'.o) /\ ~hasOwn(St, lastOp'.o, lastOp'.k)
SetOnRootQuiet ==
  /\ exc' = NoExc
  /\ notifyLog' = <<>> /\ updLog' = <<>>
  /\ keyDep'[lastOp'.o][lastOp'.k] = -1
  /\ subs' = subs

DelNotifiesOwnKey ==
  [][LET o == lastOp'.o
         k == lastOp'.k
     IN (lastOp'.op = "del" /\ WrappedNonRoot(o)) =>
          /\ FrameOf(o, k)
          /\ exc' = NoExc
          /\ IF hasOwn(St, o, k)
             THEN /\ val'[o][k] = Absent /\ keyDep'[o][k] = -1
                  /\ okeys'[o] = SelectSeq(okeys[o], LAMBDA j : j # k)
                  /\ notifyLog' = <<ob[o].dep>>
                  /\ updLog' = subs[ob[o].dep]
             ELSE /\ val' = val /\ okeys' = okeys /\ keyDep' = keyDep
                  /\ notifyLog' = <<>> /\ updLog' = <<>>
                  /\ subs' = subs /\ ws' = ws]_vars

DelWitness ==
  /\ lastOp.op = "del" /\ lastOp.o = "P"
  /\ notifyLog = <<ob["P"].dep>>
  /\ updLog # <<>>
  /\ val["P"][lastOp.k] = Absent

\* the step is observe() of a container that already has an Observer
ReObserve == lastOp'.op = "observe" /\ ob[lastOp'.o].has
ReObserveSameWrapper ==
  /\ lastOp'.ret = lastOp'.o
  /\ DOMAIN subs' = DOMAIN subs /\ subs' = subs
  /\ keyDep' = keyDep /\ childOb' = childOb /\ val' = val /\ okeys' = okeys
  /\ \A p \in Objs : ob'[p].has = ob[p].has /\ ob'[p].dep = ob[p].dep
  /\ notifyLog' = <<>>

\* C10 as stated: observe() of a wrapped container, whatever the root flag,
\* returns the existing Observer, creates no Dep, converts no key, and leaves
\* every attribute of the Observer, its root count included, as it was.
ObserveIdempotent ==
  [][ReObserve => (ReObserveSameWrapper /\ ob' = ob)]_vars

\* C10 as amended: with the root flag set the root count of the existing
\* Observer grows by one; everything else is unchanged.
ObserveIdempotentButRootCount ==
  [][ReObserve =>
       /\ ReObserveSameWrapper
       /\ \A p \in Objs :
            ob'[p].vmCount =
              IF p = lastOp'.o /\ lastOp'.v = "root" THEN ob[p].vmCount + 1
              ELSE ob[p].vmCount]_vars

ObserveWitness ==
  /\ lastOp.op = "observe" /\ lastOp.v = "root" /\ lastOp.ret = lastOp.o
  /\ ob[lastOp.o].vmCount = 2

\* the entries of the queue behind position i, in order
Behind(q, i) == SubSeq(q, i + 1, Len(q))
Ascending(q) == \A i, j \in DOMAIN q : i < j => q[i] < q[j]
\* the step is a turn of the drain loop, which runs the entry at the cursor
FlushTurn ==
  /\ lastOp'.op = "flushStep"
  /\ lastOp'.w = queue[index + 1]
  /\ ws[lastOp'.w].active => (evalLog' # <<>> /\ Head(evalLog') = lastOp'.w)
  /\ \A x \in SeqSet(evalLog') : x = lastOp'.w \/ ws[x].sync

\* C11 as stated: of two consecutive runs of one flush the later has an id
\* that is not smaller than the id of the earlier, also when watchers are
\* enqueued while the flush is in progress.
FlushAscending ==
  [][(lastOp.op = "flushStep" /\ lastOp'.op = "flushStep"
      /\ lastOp.w \in SeqSet(evalLog) /\ lastOp'.w \in SeqSet(evalLog'))
     => lastOp'.w >= lastOp.w]_vars

\* C11 as amended: the entries behind the cursor are always in ascending
\* order of id and each turn runs the first of them and no other watcher
\* that is not synchronous, so the runs ascend
\* except where a watcher with a smaller id than the running one is enqueued
\* during that run: it was not behind the cursor before the run and is run
\* next.
FlushAscendingBehindCursor ==
  [][/\ flushing' => Ascending(Behind(queue', index'))
     /\ lastOp'.op = "flushStep" =>
          /\ FlushTurn
          /\ \A n \in SeqSet(Behind(queue', index')) :
               n >= lastOp'.w \/ n \notin SeqSet(Behind(queue, index + 1))]_vars

\* a turn of a flush has run a watcher whose callback enqueued a watcher of
\* smaller id, which stands at the cursor
FlushAscendingWitness ==
  /\ lastOp.op = "flushStep" /\ flushing
  /\ index < Len(queue)
  /\ queue[index + 1] < lastOp.w
  /\ cbLog # <<>>

\* the position of the first occurrence of x in q, 0 if there is none
PosIn(q, x) == IF x \in SeqSet(q) THEN CHOOSE i \in DOMAIN q : q[i] = x /\ \A j \in 1..(i - 1) : q[j] # x
               ELSE 0
\* watcher b was notified in the step by a write the callback of watcher a made
NotifiedByCallbackOf(a, b) ==
  /\ lastOp'.op = "flushStep" /\ lastOp'.w = a
  /\ \E i \in DOMAIN cbLog' : cbLog'[i].w = a
  /\ b \in SeqSet(updLog') /\ b > a
  /\ ws'[b].active /\ ~ws'[b].lazy

LoopTemplates ==
  { <<"a", ToggleCb("R", "a"), Opt(FALSE, TRUE, FALSE, FALSE)>>,
    <<"ox", ToggleCb("P", "x"), Opt(FALSE, TRUE, FALSE, FALSE)>>,
    <<"a", NoCb, Opt(FALSE, FALSE, FALSE, FALSE)>> }

LoopWrites == {<<"R", "a", v>> : v \in {"1", "2"}} \cup {<<"P", "x", v>> : v \in {"1", "2"}}

NextLoop ==
  \/ \E x \in LoopWrites : Assign(x[1], x[2], x[3])
  \/ \E t \in LoopTemplates : Create(t[1], t[2], t[3])
  \/ FlushBegin
  \/ FlushStep
  \/ FlushEnd

SpecLoop == Init /\ [][NextLoop]_vars

\* the loop warnings naming w among the reports of a step
LoopWarningsOf(log, w) == Cardinality({i \in DOMAIN log : log[i] = LoopWarning(w)})
\* the turn just taken ran w, and the callback of w re-triggered w
ReTriggeredItself(w) ==
  /\ lastOp'.op = "flushStep" /\ lastOp'.w = w
  /\ w \in SeqSet(updLog')
  /\ ws'[w].active /\ ~ws'[w].lazy /\ ~ws'[w].sync

\* circular[w] counts the runs of w in the flush that left w pending again;
\* every run of a runaway watcher is one of them
RunawayCounts(limit) ==
  \A w \in DOMAIN ws :
    /\ circular[w] <= evalInFlush[w]
    /\ evalInFlush[w] = circular[w] => evalInFlush[w] <= limit
    /\ warned[w] <= 1
    /\ (flushing /\ warned[w] = 1) =>
          /\ circular[w] = limit
          /\ w \notin SeqSet(Behind(queue, index))
    /\ (flushing /\ circular[w] > MAX_UPDATE_COUNT) => warned[w] = 1

\* C13 as stated: a watcher whose every run in the flush re-triggered it is
\* run at most the threshold number of times, with one loop warning naming it
RunawayAtMostThreshold == RunawayCounts(MAX_UPDATE_COUNT)

RECURSIVE TotalTo(_, _)
TotalTo(f, n) == IF n = 0 THEN 0 ELSE f[n] + TotalTo(f, n - 1)
\* the re-entries counted in the flush, over all watchers
ReEntries(c) == TotalTo(c, MaxWatchers)

\* C13 as amended: a flush in progress ends: it can always take its next
\* turn or end, and every turn either counts a re-entry, of which each
\* watcher has at most the threshold plus one, or shortens the queue behind
\* the cursor.  A watcher whose every run in the flush re-triggered it is run
\* at most the threshold number of times plus one; each run that re-triggers
\* it counts one re-entry; the turn in which its
\* re-entry count passes the threshold reports one loop warning naming it and
\* leaves it out of the rest of the flush, so one flush warns about it at
\* most once; the end of the flush leaves the queue empty, no flush in
\* progress and the counters cleared
RunawayTerminates ==
  /\ [](/\ RunawayCounts(MAX_UPDATE_COUNT + 1)
        /\ \A w \in DOMAIN circular : circular[w] <= MAX_UPDATE_COUNT + 1
        /\ flushing => (exc = NoExc /\ ENABLED (FlushStep \/ FlushEnd)))
  /\ [][/\ \A w \in DOMAIN ws' : ReTriggeredItself(w) =>
             /\ circular'[w] = circular[w] + 1
             /\ LoopWarningsOf(errLog', w) = (IF circular[w] >= MAX_UPDATE_COUNT THEN 1 ELSE 0)
             /\ warned'[w] = warned[w] + LoopWarningsOf(errLog', w)
        /\ lastOp'.op = "flushStep" =>
             \/ ReEntries(circular') > ReEntries(circular)
             \/ /\ circular' = circular
                /\ Len(Behind(queue', index')) < Len(Behind(queue, index))
        /\ lastOp'.op = "flushEnd" =>
             /\ queue' = <<>> /\ has' = {} /\ ~flushing' /\ ~waiting' /\ index' = 0
             /\ \A w \in DOMAIN circular' : circular'[w] = 0]_vars

\* a flush has drained in which a watcher that flips the key it reads ran
\* away: it was run three times and one warning names it
RunawayWitness ==
  /\ Drained
  /\ \E w \in DOMAIN ws :
        /\ ws[w].cb.kind = "toggle"
        /\ evalInFlush[w] = MAX_UPDATE_COUNT + 1
        /\ warned[w] = 1
        /\ circular[w] = MAX_UPDATE_COUNT + 1

\* watcher w is subscribed to every Dep of its confirmed dependency set
Subscribed(w) == \A d \in ws[w].depIds : w \in SeqSet(subs[d])

\* C14: a watcher re-triggered by its own run in a flush stands behind the
\* cursor again, so that a later turn of the same flush runs it, as long as
\* its re-entry count does not pass the threshold; the turn that passes the
\* threshold takes it out of the rest of that flush and leaves it active and
\* subscribed; after the flush has ended a changing write to a key it is
\* subscribed to puts it in the queue, the next flush starts with that
\* queue and each of its turns runs the entry at the cursor
DroppedForThisFlushOnly ==
  /\ [](\A w \in DOMAIN ws :
          (flushing /\ circular[w] > MAX_UPDATE_COUNT) =>
             /\ w \notin SeqSet(Behind(queue, index))
             /\ w \in dropped /\ ws[w].active /\ ws[w].depIds # {} /\ Subscribed(w))
  /\ [][/\ \A w \in DOMAIN ws' : ReTriggeredItself(w) =>
             IF circular[w] + 1 <= MAX_UPDATE_COUNT
             THEN w \in SeqSet(Behind(queue', index')) /\ circular'[w] = circular[w] + 1
             ELSE w \notin SeqSet(Behind(queue', index')) /\ w \in dropped'
        /\ lastOp'.op = "flushStep" => FlushTurn
        /\ lastOp'.op = "assign" =>
             \A w \in DOMAIN ws :
               (/\ keyDep[lastOp'.o][lastOp'.k] >= 0
                /\ w \in SeqSet(subs[keyDep[lastOp'.o][lastOp'.k]])
                /\ lastOp'.v # lastOp'.old
                /\ ws[w].active /\ ~ws[w].lazy /\ ~ws[w].sync)
               => (w \in SeqSet(queue') /\ waiting' /\ ~flushing' /\ exc' = NoExc)
        /\ lastOp'.op = "flushBegin" =>
             (flushing' /\ index' = 0 /\ SeqSet(queue') = SeqSet(queue))]_vars

\* a watcher that an earlier flush dropped is run again by a turn of a later
\* flush, which a write to its key made after that flush ended brought about
DroppedWitness ==
  /\ lastOp.op = "flushStep" /\ flushing
  /\ \E w \in dropped :
        /\ lastOp.w = w /\ evalLog # <<>> /\ Head(evalLog) = w
        /\ warned[w] = 0 /\ circular[w] = 1
        /\ w \in SeqSet(Behind(queue, index))

\* ------------------------------------------------------------ exceptions
\* SpecErr: watchers whose getter throws when R.a is 2, declared by the user
\* or internal, a user watcher whose callback throws, and a plain watcher.
\* An exception that reaches the consumer stops the program.
ErrTemplates ==
  { <<"guard", NoCb, Opt(FALSE, TRUE, FALSE, FALSE)>>,
    <<"guard", NoCb, Opt(FALSE, FALSE, FALSE, FALSE)>>,
    <<"a", ThrowCb, Opt(FALSE, TRUE, FALSE, FALSE)>>,
    <<"a", NoCb, Opt(FALSE, FALSE, FALSE, FALSE)>> }

ErrWrites == {<<"R", "a", v>> : v \in {"1", "2"}} \cup {<<"P", "x", v>> : v \in {"1", "2"}}

NextErr ==
  \/ \E x \in ErrWrites : Assign(x[1], x[2], x[3])
  \/ \E t \in ErrTemplates : Create(t[1], t[2], t[3])
  \/ FlushBegin
  \/ FlushStep
  \/ FlushEnd

SpecErr == Init /\ [][NextErr]_vars

\* the step evaluated watcher w and its getter threw: the getter "guard"
\* throws when it reads 2 from R.a, and the step is the construction of w or
\* the turn of a flush that runs w
GetterThrows(w) ==
  /\ lastOp'.w = w /\ lastOp'.op \in {"create", "flushStep"}
  /\ ws'[w].getter = "guard" /\ ws'[w].active
  /\ val["R"]["a"] = "2"
  /\ evalLog' = <<w>>
GetterErrors(log) == Cardinality({i \in DOMAIN log : log[i] = "error: getter for watcher"})

\* C15: when the getter of a watcher throws during an evaluation, a user
\* watcher has the exception reported once and not thrown on, and the
\* evaluation yields undefined, which becomes the cached value; an internal
\* watcher has the exception thrown on to the caller, with nothing reported
\* and the cached value left as it was
GetterExceptionPolicy ==
  [][\A w \in DOMAIN ws' : GetterThrows(w) =>
       IF ws'[w].user
       THEN /\ exc' = NoExc
            /\ GetterErrors(errLog') = 1 /\ Len(errLog') = 1
            /\ ws'[w].value = Undefined
            /\ lastOp'.op = "flushStep" => index' = index + 1
       ELSE /\ exc' = UserError
            /\ errLog' = <<>>
            /\ ws'[w].value = (IF lastOp'.op = "create" THEN Undefined ELSE ws[w].value)
            /\ cbLog' = <<>>]_vars

\* the getter of a user watcher threw in a turn of a flush: it was reported,
\* the flush goes on and the cached value, which was 1, is undefined
GetterExceptionWitness ==
  /\ lastOp.op = "flushStep" /\ flushing /\ exc = NoExc
  /\ ws[lastOp.w].getter = "guard" /\ ws[lastOp.w].user
  /\ errLog = <<"error: getter for watcher">>
  /\ ws[lastOp.w].value = Undefined
  /\ cbLog # <<>> /\ cbLog[1].old = "1"

\* the turn of the flush ran the user watcher w, whose callback throws, and
\* the callback was called
UserCallbackThrows(w) ==
  /\ lastOp'.op = "flushStep" /\ lastOp'.w = w
  /\ ws[w].user /\ ws[w].cb.kind = "throw"
  /\ cbLog' # <<>> /\ cbLog'[1].w = w

\* C16: when the callback of a user watcher throws in a turn of a flush, the
\* exception is reported once and not thrown on, the cached value of the
\* watcher is the newly evaluated one, the cursor moves on and every entry
\* that was behind it is still there, to be run by the turns that follow;
\* the flush can take its next turn or end, and its end resets the bookkeeping
CallbackExceptionContained ==
  /\ []((flushing /\ exc = NoExc) => ENABLED (FlushStep \/ FlushEnd))
  /\ [][/\ \A w \in DOMAIN ws : UserCallbackThrows(w) =>
             /\ exc' = NoExc
             /\ errLog' = <<"error: callback for watcher">>
             /\ ws'[w].value = cbLog'[1].new /\ ws[w].value = cbLog'[1].old
             /\ ws'[w].value = val'["R"]["a"]
             /\ index' = index + 1 /\ flushing'
             /\ Behind(queue', index') = Behind(queue, index + 1)
        /\ lastOp'.op = "flushStep" => FlushTurn
        /\ lastOp'.op = "flushEnd" =>
             /\ queue' = <<>> /\ has' = {} /\ ~flushing' /\ ~waiting' /\ index' = 0
             /\ \A w \in DOMAIN circular' : circular'[w] = 0]_vars

\* the callback of user watcher 1 has thrown in a turn of a flush: it is
\* reported, the value is cached and watcher 2 is still behind the cursor
CallbackExceptionWitness ==
  /\ lastOp.op = "flushStep" /\ lastOp.w = 1 /\ flushing /\ exc = NoExc
  /\ ws[1].cb.kind = "throw" /\ ws[1].user
  /\ errLog = <<"error: callback for watcher">>
  /\ ws[1].value = "2" /\ cbLog[1].old = "1"
  /\ Behind(queue, index) = <<2>>

\* C20: whether the getter returned or threw, and whether or not the
\* exception was thrown on, when the step that evaluated a watcher ends the
\* active-watcher stack is as before the evaluation (empty, between steps),
\* the in-progress sets of the watcher are empty, its confirmed set holds the
\* Deps read by the evaluation up to the throw and no other, and it is
\* subscribed to those Deps and no other
GetAlwaysPopsAndReconciles ==
  /\ targetStack = <<>>
  /\ \A w \in DOMAIN ws :
        /\ ws[w].newDeps = <<>> /\ ws[w].newDepIds = {}
        /\ ws[w].depIds = SeqSet(ws[w].deps)
        /\ ws[w].evaluated => ws[w].depIds = ws[w].readLog
        /\ ws[w].active => \A d \in DOMAIN subs : w \in SeqSet(subs[d]) <=> d \in ws[w].depIds

\* the getter of an internal watcher has thrown in a turn of a flush and the
\* exception is in flight: the watcher, which had read R.a, R.o and P.x, now
\* holds the Dep of R.a alone
GetAlwaysPopsWitness ==
  /\ exc = UserError /\ lastOp.op = "flushStep"
  /\ ~ws[lastOp.w].user /\ ws[lastOp.w].getter = "guard"
  /\ ws[lastOp.w].depIds = {keyDep["R"]["a"]}
  /\ Cardinality(ws[lastOp.w].prevDeps) > 1
  /\ targetStack = <<>>

\* ------------------------------------------------- lazy and sync watchers
\* SpecLazy: watchers of the path o.x that are lazy, lazy and sync, sync, or
\* queued, and a queued watcher of R.a whose getter evaluates the lazy
\* watcher of id 1 on its way; the consumer evaluates lazy watchers on demand.
LazyTemplates ==
  { <<"ox", NoCb, Opt(FALSE, FALSE, TRUE, FALSE)>>,
    <<"ox", NoCb, Opt(FALSE, FALSE, TRUE, TRUE)>>,
    <<"ox", NoCb, Opt(FALSE, TRUE, FALSE, TRUE)>>,
    <<"ox", NoCb, Opt(FALSE, FALSE, FALSE, FALSE)>>,
    <<"nest", NoCb, Opt(FALSE, FALSE, FALSE, FALSE)>> }

LazyWrites == {<<"R", "a", v>> : v \in {"1", "2"}} \cup {<<"P", "x", v>> : v \in {"1", "2"}}

NextLazy ==
  \/ \E x \in LazyWrites : Assign(x[1], x[2], x[3])
  \/ \E t \in LazyTemplates : Create(t[1], t[2], t[3])
  \/ \E w \in 1..MaxWatchers : Evaluate(w)
  \/ FlushBegin
  \/ FlushStep
  \/ FlushEnd

SpecLazy == Init /\ [][NextLazy]_vars

\* the callback of w was called in the step
CalledBack(w) == \E i \in DOMAIN cbLog' : cbLog'[i].w = w
\* the step evaluated a getter that evaluates watcher 1 on its way
NestedEvaluation == \E a \in SeqSet(evalLog') : a # 1 /\ ws'[a].getter = "nest"

\* C17: for every watcher whose update() a write of the consumer has called:
\* a lazy watcher, synchronous or not, has its dirty flag set, its getter
\* and callback not run and is not in the queue; a synchronous watcher that
\* is not lazy has its getter run once within the write, its callback called
\* exactly when the value differs from the cached one, and is not in the
\* queue; any other watcher is in the queue, with a flush scheduled, and
\* neither its getter nor its callback has run
UpdateDispatch ==
  [][lastOp'.op = "assign" =>
       \A w \in SeqSet(updLog') :
         IF ws[w].lazy
         THEN /\ ws'[w].dirty
              /\ w \notin SeqSet(evalLog') /\ ~CalledBack(w)
              /\ ws'[w].value = ws[w].value
              /\ w \notin SeqSet(queue') /\ w \notin has'
         ELSE IF ws[w].sync
         THEN /\ Count(evalLog', w) = 1
              /\ ws'[w].value = val'["P"]["x"]
              /\ CalledBack(w) <=> ~StrictEq(val'["P"]["x"], ws[w].value)
              /\ w \notin SeqSet(queue') /\ w \notin has'
         ELSE /\ Count(queue', w) = 1 /\ w \in has' /\ waiting'
              /\ w \notin SeqSet(evalLog') /\ ~CalledBack(w)
              /\ ws'[w].value = ws[w].value]_vars

\* a write to P.x has notified watcher 1, lazy and synchronous, which was
\* clean and is dirty now with its old value, and watcher 2, synchronous,
\* which has run
UpdateDispatchWitness ==
  /\ lastOp.op = "assign" /\ updLog = <<1, 2>>
  /\ ws[1].lazy /\ ws[1].sync /\ ws[1].dirty /\ ws[1].evaluated
  /\ ws[1].value # val["P"]["x"]
  /\ ~ws[2].lazy /\ ws[2].sync /\ evalLog = <<2>> /\ cbLog # <<>>
  /\ queue = <<>>

\* the Deps the path o.x reads: the keys o of R and x of P, and the Observer of P
DepsOfPath == {keyDep["R"]["o"], ob["P"].dep, keyDep["P"]["x"]}

\* C18: a lazy watcher is constructed without running its getter, with empty
\* dependency sets, an undefined value and dirty set; evaluate() runs the
\* getter once, caches the result and clears dirty; a notification sets dirty
\* and runs nothing, the value staying as cached; the getter of a lazy
\* watcher runs in no step but an evaluate() of that watcher, the one a
\* getter makes on its way included; so a clean lazy watcher holds the
\* current value
LazyLifeCycle ==
  /\ [](\A w \in DOMAIN ws : ws[w].lazy =>
          /\ ~ws[w].evaluated =>
                (ws[w].dirty /\ ws[w].value = Undefined /\ ws[w].deps = <<>>
                 /\ ws[w].depIds = {} /\ \A d \in DOMAIN subs : w \notin SeqSet(subs[d]))
          /\ ~ws[w].dirty => (ws[w].evaluated /\ ws[w].value = val["P"]["x"]))
  /\ [][\A w \in DOMAIN ws' : ws'[w].lazy =>
          /\ (lastOp'.op = "create" /\ lastOp'.w = w) =>
                (w \notin SeqSet(evalLog') /\ ~ws'[w].evaluated /\ ws'[w].dirty)
          /\ (lastOp'.op = "evaluate" /\ lastOp'.w = w) =>
                /\ evalLog' = <<w>> /\ cbLog' = <<>>
                /\ ws'[w].value = val["P"]["x"] /\ ~ws'[w].dirty
                /\ ws'[w].depIds = DepsOfPath
          /\ (w \in DOMAIN ws /\ w \in SeqSet(updLog')) =>
                /\ ws'[w].dirty /\ ws'[w].value = ws[w].value
                /\ w \notin SeqSet(evalLog') /\ w \notin SeqSet(queue')
          /\ w \in SeqSet(evalLog') =>
                \/ lastOp'.op = "evaluate" /\ lastOp'.w = w
                \/ w = 1 /\ NestedEvaluation /\ ~ws'[w].dirty]_vars

\* a lazy watcher that had been evaluated before has been evaluated again on
\* demand after a write: it is clean and holds the value written
LazyWitness ==
  /\ lastOp.op = "evaluate" /\ evalLog = <<lastOp.w>>
  /\ ws[lastOp.w].lazy /\ ~ws[lastOp.w].dirty
  /\ ws[lastOp.w].prevDeps = DepsOfPath
  /\ ws[lastOp.w].value = "2" /\ val["P"]["x"] = "2"

\* C19: in a step that evaluates watcher a, whose getter evaluates the lazy
\* watcher 1 on its way and then reads R.a: the Deps of the path o.x, read
\* during the inner evaluation, are recorded against watcher 1 and not
\* against a; the Dep of R.a, read after the inner evaluation has completed,
\* is recorded against a and not against watcher 1; and the active-watcher
\* stack ends as it began
NestedAttribution ==
  [][\A a \in DOMAIN ws' :
       (ws'[a].getter = "nest" /\ evalLog' = <<a, 1>>) =>
          /\ ws'[1].depIds = DepsOfPath /\ ws'[1].readLog = DepsOfPath
          /\ ws'[a].depIds = {keyDep["R"]["a"]} /\ ws'[a].readLog = {keyDep["R"]["a"]}
          /\ \A d \in DOMAIN subs' :
                /\ 1 \in SeqSet(subs'[d]) <=> d \in DepsOfPath
                /\ a \in SeqSet(subs'[d]) <=> d = keyDep["R"]["a"]
          /\ ws'[1].value = val["P"]["x"] /\ ~ws'[1].dirty
          /\ targetStack' = targetStack /\ targetStack' = <<>>]_vars

\* a turn of a flush has re-evaluated watcher 2, whose getter evaluated the
\* lazy watcher 1 on its way: each holds the Deps it read itself
NestedWitness ==
  /\ lastOp.op = "flushStep" /\ evalLog = <<2, 1>>
  /\ ws[2].getter = "nest" /\ ws[1].lazy
  /\ ws[1].depIds = DepsOfPath
  /\ ws[2].depIds = {keyDep["R"]["a"]}
  /\ targetStack = <<>>

\* SpecWrap: the data root R = {a: 1} has been observed; P = {x: 1}, Q = {}
\* and the lists L = [1, M], M = [Q] are built but not yet observed.  The
\* consumer observes them, stores them under converted keys by assignment and
\* by set(), reads keys, and declares watchers of R.a, queued and synchronous.
LoadedWrap ==
  [Loaded EXCEPT !.okeys = [@ EXCEPT !["R"] = <<"a">>, !["Q"] = <<>>],
                 !.val = [@ EXCEPT !["R"]["o"] = Absent, !["Q"]["x"] = Absent]]

InitWrap == StartIn(observe(LoadedWrap, "R", TRUE))

WrapTemplates ==
  { <<"a", NoCb, Opt(FALSE, FALSE, FALSE, FALSE)>>,
    <<"a", NoCb, Opt(FALSE, TRUE, FALSE, TRUE)>> }

WrapWrites ==
  {<<"R", "a", v>> : v \in {"1", "P", "L", "M"}}

WrapProps == {<<"P", "n", "Q">>, <<"Q", "n", "1">>}

NextWrap ==
  \/ Observe("M", FALSE)
  \/ \E x \in WrapWrites : Assign(x[1], x[2], x[3])
  \/ \E x \in WrapProps : SetProp(x[1], x[2], x[3])
  \/ Read("R", "a")
  \/ \E t \in WrapTemplates : Create(t[1], t[2], t[3])
  \/ FlushBegin
  \/ FlushStep
  \/ FlushEnd

SpecWrap == InitWrap /\ [][NextWrap]_vars

\* the objects a container holds directly: the elements of a list, the values
\* of the converted keys of a plain object
Held(o) ==
  IF isArray(o) THEN {e \in SeqSet(Elems(o)) : isObject(e)}
  ELSE {val[o][k] : k \in {k \in Keys : keyDep[o][k] >= 0}} \cap Objs

\* C21: observation being enabled, every extensible object or list that a
\* wrapped container holds under a converted key or as a list element is
\* itself wrapped (so by induction is everything reachable from it), and the
\* key's accessor holds the wrapper of the current value; a watcher that has
\* read a converted key whose current value is an object or list, and is not
\* waiting in the queue to be run again, has recorded the container-level Dep
\* of that current value: the synchronous watcher a write notifies has
\* recorded it when the write returns, so the new value was wrapped before the
\* key's Dep was notified
EagerWrapping ==
  shouldObserve =>
    /\ \A o \in Objs : ob[o].has =>
          \A v \in Held(o) : isExtensible(v) => ob[v].has
    /\ \A o \in Objs, k \in Keys :
          (keyDep[o][k] >= 0 /\ isObject(val[o][k])) => childOb[o][k] = val[o][k]
    /\ \A w \in DOMAIN ws : \A o \in Objs, k \in Keys :
          (/\ ws[w].evaluated /\ w \notin has
           /\ keyDep[o][k] >= 0 /\ keyDep[o][k] \in ws[w].depIds
           /\ isObject(val[o][k]))
          => (ob[val[o][k]].has /\ ob[val[o][k]].dep \in ws[w].depIds)

\* the assignment R.a = M has replaced the object P by the list M = [Q]: the
\* list and its element are wrapped, and the synchronous watcher the write
\* notified has recorded the list's Dep and dropped the Dep of P's wrapper
EagerWrappingWitness ==
  /\ lastOp.op = "assign" /\ lastOp.o = "R" /\ lastOp.k = "a"
  /\ lastOp.v = "M" /\ lastOp.old = "P"
  /\ ob["M"].has /\ ob["Q"].has /\ ob["P"].has
  /\ childOb["R"]["a"] = "M"
  /\ \E w \in SeqSet(evalLog) :
        /\ ws[w].sync
        /\ ob["M"].dep \in ws[w].depIds
        /\ ob["P"].dep \notin ws[w].depIds

\* SpecDepend: a lazy watcher of the path o.x, watchers whose getter reads
\* it the way a computed value is read (evaluate when dirty, then depend()),
\* queued and synchronous, and a watcher that reads R.a twice; the consumer
\* writes R.o and P.x, evaluates the lazy watcher, calls depend() on the
\* first watcher outside every evaluation and tears watchers down.
DependTemplates ==
  { <<"ox", NoCb, Opt(FALSE, FALSE, TRUE, FALSE)>>,
    <<"via", NoCb, Opt(FALSE, FALSE, FALSE, FALSE)>>,
    <<"via", NoCb, Opt(FALSE, TRUE, FALSE, TRUE)>>,
    <<"twice", NoCb, Opt(FALSE, FALSE, FALSE, FALSE)>> }

DependWrites ==
  {<<"R", "o", v>> : v \in {"1", "P"}} \cup {<<"P", "x", v>> : v \in {"1", "2"}}

NextDepend ==
  \/ \E x \in DependWrites : Assign(x[1], x[2], x[3])
  \/ \E t \in DependTemplates : Create(t[1], t[2], t[3])
  \/ \E w \in 1..MaxWatchers : Evaluate(w)
  \/ Depend(1)
  \/ \E w \in 1..MaxWatchers : Teardown(w)
  \/ FlushBegin
  \/ FlushStep
  \/ FlushEnd

SpecDepend == Init /\ [][NextDepend]_vars

\* watcher o reads the lazy watcher of id 1 through depend()
ReadsLazy(o) ==
  o # 1 /\ o \in DOMAIN ws /\ ws[o].getter = "via" /\ ws[1].lazy

\* C25: a step that evaluates a watcher o whose getter calls depend() on the
\* lazy watcher 1 leaves o subscribed to every Dep of watcher 1 and holding
\* each of them in its own dependency set; while both are active and o is
\* evaluated and not waiting in the queue, the dependencies of o include
\* those of watcher 1, and a write that changes a key watcher 1 depends on
\* calls update() on o and on watcher 1; depend() called while no watcher is
\* active changes no subscriber list and no dependency set
DependInherits ==
  [][/\ \A o \in SeqSet(evalLog') :
          (ReadsLazy(o)' /\ exc' = NoExc) =>
             /\ ws'[1].depIds \subseteq ws'[o].depIds
             /\ SeqSet(ws'[1].deps) \subseteq SeqSet(ws'[o].deps)
             /\ \A d \in ws'[1].depIds : o \in SeqSet(subs'[d])
     /\ \A o \in DOMAIN ws :
          (/\ ReadsLazy(o) /\ ws[1].active
           /\ ws[o].active /\ ws[o].evaluated /\ o \notin has) =>
             /\ ws[1].depIds \subseteq ws[o].depIds
             /\ (/\ lastOp'.op = "assign"
                 /\ keyDep[lastOp'.o][lastOp'.k] \in ws[1].depIds
                 /\ val'[lastOp'.o][lastOp'.k] # val[lastOp'.o][lastOp'.k])
                => (o \in SeqSet(updLog') /\ 1 \in SeqSet(updLog'))
     /\ lastOp'.op = "depend" =>
          (subs' = subs /\ ws' = ws /\ targetStack' = targetStack)]_vars

\* a write to P.x, a key the lazy watcher 1 depends on, has called update()
\* on watcher 1 and on the queued watcher 2 that reads it through depend():
\* watcher 2 holds, and is subscribed to, the three Deps of watcher 1
DependInheritsWitness ==
  /\ lastOp.op = "assign" /\ lastOp.o = "P" /\ lastOp.k = "x"
  /\ Len(ws) >= 2 /\ ws[1].lazy /\ ws[2].getter = "via" /\ ~ws[2].sync
  /\ Cardinality(ws[1].depIds) = 3
  /\ ws[1].depIds \subseteq ws[2].depIds
  /\ \A d \in ws[1].depIds : 2 \in SeqSet(subs[d])
  /\ 1 \in SeqSet(updLog) /\ 2 \in SeqSet(updLog)
  /\ ws[1].dirty /\ 2 \in has

\* no element occurs twice in the sequence q
NoDup(q) == \A i, j \in DOMAIN q : q[i] = q[j] => i = j

\* C22: no Dep's subscriber list holds a watcher twice, and no watcher's
\* dependency list, confirmed or in progress, holds a Dep twice: the lists
\* have as many entries as the id sets that guard them have members
NoDuplicateSubscriptions ==
  /\ \A d \in DOMAIN subs : NoDup(subs[d])
  /\ \A w \in DOMAIN ws :
        /\ NoDup(ws[w].deps) /\ SeqSet(ws[w].deps) = ws[w].depIds
        /\ NoDup(ws[w].newDeps) /\ SeqSet(ws[w].newDeps) = ws[w].newDepIds

\* a watcher whose getter reads R.a twice has been evaluated and holds the
\* Dep of R.a once and is subscribed to it once; the lazy watcher next to it
\* has been evaluated twice, reading the same three Deps, and was then torn
\* down
NoDuplicateWitness ==
  /\ Len(ws) = 2 /\ lastOp.op = "teardown" /\ lastOp.w = 1
  /\ ws[2].getter = "twice" /\ ws[2].evaluated
  /\ ws[2].deps = <<keyDep["R"]["a"]>>
  /\ Count(subs[keyDep["R"]["a"]], 2) = 1
  /\ ws[1].lazy /\ Len(ws[1].deps) = 3 /\ ws[1].prevDeps = ws[1].depIds

\* every watcher update() was called on in the step is a queued one (neither
\* lazy nor synchronous) that was already pending when the step began
OnlyPendingNotified ==
  /\ updLog' # <<>>
  /\ \A w \in SeqSet(updLog') : ~ws[w].lazy /\ ~ws[w].sync /\ w \in has

\* C23 as stated: in every state, whether or not a flush is in progress, no
\* watcher occurs twice in the scheduler's sequence
QueueUniqueWhole == NoDup(queue)

\* C23: whether or not a flush is in progress, no watcher occurs twice among
\* the entries of the queue the cursor has not passed (before a flush, the
\* whole queue), every such entry carries the queued mark
\* and a non-empty queue has its flush scheduled; a write by the consumer
\* that notifies only watchers that are already pending changes neither the
\* queue nor the queued marks nor the scheduled-flush state
QueueUnique ==
  /\ [](/\ NoDup(Behind(queue, index))
        /\ SeqSet(Behind(queue, index)) \subseteq has
        /\ ~flushing => (index = 0 /\ SeqSet(queue) = has)
        /\ queue # <<>> => waiting)
  /\ [][(lastOp'.op = "assign" /\ OnlyPendingNotified) =>
          /\ queue' = queue /\ has' = has /\ waiting' = waiting
          /\ flushing' = flushing /\ index' = index]_vars

\* the first turn of a flush has run watcher 1, and its callback has written
\* R.a and so notified watcher 2, which a write before the flush had already
\* enqueued: watcher 2 is pending once
QueueUniqueWitness ==
  /\ lastOp.op = "flushStep" /\ lastOp.w = 1 /\ flushing /\ index = 1
  /\ cbLog # <<>> /\ updLog = <<2>>
  /\ flTouched = {1, 2}
  /\ ~ws[2].sync /\ ~ws[2].lazy
  /\ queue = <<1, 2>> /\ 2 \in has

\* SpecNotify: watchers of R.a: synchronous ones whose callback tears down
\* the watcher of id 1 or 2 (itself or another subscriber of the same Dep),
\* a queued one, a lazy one, and a synchronous one whose getter evaluates the
\* lazy watcher of id 1 when R.a is 2; the consumer writes R.a.
NotifyTemplates ==
  { <<"a", NoCb, Opt(FALSE, FALSE, TRUE, FALSE)>>,
    <<"lazyif", NoCb, Opt(FALSE, TRUE, FALSE, TRUE)>>,
    <<"a", TeardownCb(1), Opt(FALSE, TRUE, FALSE, TRUE)>>,
    <<"a", TeardownCb(2), Opt(FALSE, TRUE, FALSE, TRUE)>>,
    <<"a", NoCb, Opt(FALSE, FALSE, FALSE, FALSE)>> }

NotifyWrites == {<<"R", "a", v>> : v \in {"1", "2", NaN}}

NextNotify ==
  \/ \E x \in NotifyWrites : Assign(x[1], x[2], x[3])
  \/ \E t \in NotifyTemplates : Create(t[1], t[2], t[3])
  \/ FlushBegin
  \/ FlushStep
  \/ FlushEnd

SpecNotify == Init /\ [][NextNotify]_vars

\* C24: a write that notifies one Dep calls update() on exactly the watchers
\* that were subscribed to the Dep when the write began, once each and in
\* the order of the subscriber list, also when the update of one of them
\* tears a subscriber down or subscribes another watcher to the same Dep
\* during the pass: a watcher subscribed during the pass is not called
NotifySnapshot ==
  [][(lastOp'.op = "assign" /\ Len(notifyLog') = 1) =>
        /\ updLog' = subs[Head(notifyLog')]
        /\ NoDup(updLog')
        /\ \A w \in SeqSet(subs'[Head(notifyLog')]) \ SeqSet(subs[Head(notifyLog')]) :
              w \notin SeqSet(updLog') /\ (ws'[w].lazy => ~ws'[w].dirty)]_vars

\* a write to R.a has called update() on watchers 1 and 2 in this order,
\* although the callback of watcher 1, run synchronously within the pass,
\* tore a subscriber down and so removed it from the list being notified
NotifySnapshotWitness ==
  /\ lastOp.op = "assign" /\ lastOp.o = "R" /\ lastOp.k = "a"
  /\ notifyLog = <<keyDep["R"]["a"]>>
  /\ updLog = <<1, 2>>
  /\ ws[1].sync /\ ws[1].cb.kind = "teardown" /\ cbLog # <<>>
  /\ Len(subs[keyDep["R"]["a"]]) = 1

\* SpecCache: lazy watchers of the paths o.x and o.n; the consumer writes
\* converted keys, adds a key with set(), deletes keys with del() and
\* evaluates the lazy watchers on demand.
CacheTemplates ==
  { <<"ox", NoCb, Opt(FALSE, FALSE, TRUE, FALSE)>>,
    <<"on", NoCb, Opt(FALSE, FALSE, TRUE, FALSE)>> }

CacheWrites == {<<"R", "o", v>> : v \in {"1", "P"}} \cup {<<"P", "n", "2">>}

CacheSets == {<<"P", "n", "1">>}
CacheDels == {<<"P", "n">>}

NextCache ==
  \/ \E x \in CacheWrites : AssignConverted(x[1], x[2], x[3])
  \/ \E x \in CacheSets : SetProp(x[1], x[2], x[3])
  \/ \E x \in CacheDels : DelProp(x[1], x[2])
  \/ \E t \in CacheTemplates : Create(t[1], t[2], t[3])
  \/ \E w \in 1..MaxWatchers : Evaluate(w)

SpecCache == Init /\ [][NextCache]_vars

\* what the evaluator of watcher w returns on the current state
Fresh(w) == evaluator(St, w).ret

\* C27: a lazy watcher that is not dirty caches the value its evaluator
\* returns on the current state: every write to a converted key, set() or
\* del() that changes what the evaluator returns has set dirty
CacheCoherent ==
  \A w \in DOMAIN ws :
     (ws[w].lazy /\ ~ws[w].dirty) => (ws[w].evaluated /\ ws[w].value = Fresh(w))

\* the lazy watcher of the path o.n is clean and caches the value 1 of the
\* key P.n, a key that set() added after the watcher had cached undefined,
\* which made the watcher dirty until it was evaluated again
CacheCoherentWitness ==
  /\ lastOp.op = "evaluate" /\ lastOp.w = 1
  /\ ws[1].getter = "on" /\ ws[1].lazy /\ ~ws[1].dirty
  /\ ws[1].value = "1" /\ val["P"]["n"] = "1" /\ keyDep["P"]["n"] >= 0
  /\ ws[1].prevDeps # {} /\ ws[1].prevDeps # ws[1].depIds

RECURSIVE ElemDeps(_)
\* the container-level Deps of the wrapped elements of the list v, through
\* nested lists
ElemDeps(v) ==
  UNION { (IF isObject(Elems(v)[i]) /\ ob[Elems(v)[i]].has
           THEN {ob[Elems(v)[i]].dep} ELSE {})
          \cup (IF isArray(Elems(v)[i]) THEN ElemDeps(Elems(v)[i]) ELSE {})
          : i \in DOMAIN Elems(v) }

\* the Deps a read of the converted key o.k records
DepsOfRead(o, k) ==
  {keyDep[o][k]}
  \cup (IF isObject(val[o][k]) /\ ob[val[o][k]].has
        THEN {ob[val[o][k]].dep}
             \cup (IF isArray(val[o][k]) THEN ElemDeps(val[o][k]) ELSE {})
        ELSE {})

\* C26: a watcher whose getter reads the converted key R.a, evaluated in a
\* step, has recorded and is subscribed to exactly the key's Dep, the
\* container-level Dep of the value when the value is a wrapped object or
\* list, and the container-level Dep of every wrapped element of a list
\* value through nested lists; a read made while no watcher is active
\* returns the value of the key and changes no subscriber list and no
\* dependency set
ReadRecords ==
  [][/\ \A w \in SeqSet(evalLog') :
          ws'[w].getter = "a" =>
             /\ ws'[w].readLog = DepsOfRead("R", "a")'
             /\ ws'[w].depIds = DepsOfRead("R", "a")'
             /\ \A d \in DOMAIN subs' :
                   w \in SeqSet(subs'[d]) <=> d \in DepsOfRead("R", "a")'
     /\ lastOp'.op = "read" =>
          /\ lastOp'.ret = val[lastOp'.o][lastOp'.k]
          /\ subs' = subs /\ ws' = ws /\ val' = val
          /\ targetStack' = targetStack]_vars

\* a watcher has read R.a while it held the list L = [1, M], M = [Q]: it has
\* recorded the key's Dep and the Deps of the wrappers of L, of its element M
\* and of M's element Q
ReadRecordsWitness ==
  /\ val["R"]["a"] = "L"
  /\ \E w \in SeqSet(evalLog) :
        /\ ws[w].getter = "a"
        /\ ws[w].readLog = {keyDep["R"]["a"], ob["L"].dep, ob["M"].dep, ob["Q"].dep}
        /\ Cardinality(ws[w].readLog) = 4
====
